---- MODULE Spec2Model ----
(***************************************************************************)
(* Graph analytics pipeline of the networking RCA GraphRAG indexer:        *)
(* drift detection, bridge identification and community fingerprinting,    *)
(* each a batch function over persisted artifacts (JSON maps, CSV rows).   *)
(*                                                                         *)
(* Conventions.  A Python str is the sequence of its characters; the keys  *)
(* of a community map are the decimal numerals the clustering stage wrote  *)
(* with str(int(name)), and a CSV cell of the projection is the integer    *)
(* pandas reads.  A Python dict whose iteration order the code relies on   *)
(* is a sequence of [key, val] records with distinct keys, in insertion    *)
(* order; a dict that is only indexed by field name is a TLA+ function     *)
(* over its field names.  The result of dict.get is <<>> for None and      *)
(* <<v>> for a value v.  A float that the code computes from integers is   *)
(* the exact rational [num, den] in lowest terms.                          *)
(***************************************************************************)
EXTENDS Integers, Sequences, FiniteSets, TLC

\* ------------------------------------------------------------------ bounds
NumNodes == 3
MaxComm == 1
MaxEdges == 2
MaxTopK == 2
MaxScore == 2
MaxLevels == 3
MaxRuns == 2

\* Node ids 9, 10, 11, ...: their numerals sort differently as text ("10" < "9").
NodeIds == 9 .. (8 + NumNodes)
CommunityIds == 0 .. MaxComm
EdgeTypes == {"structural", "semantic"}

\* ------------------------------------------------------- Python primitives
NoError == "none"

Digits == <<"0", "1", "2", "3", "4", "5", "6", "7", "8", "9">>

\* ord() of a decimal digit character, relative to "0".
Ord(c) == (CHOOSE i \in 1 .. 10 : Digits[i] = c) - 1

RECURSIVE Str(_)
\* str(n) for a non-negative integer: its decimal numeral, a sequence of characters.
Str(n) == IF n < 10 THEN <<Digits[n + 1]>> ELSE Str(n \div 10) \o <<Digits[(n % 10) + 1]>>

RECURSIVE StrLess(_, _)
\* a < b on Python strings: lexicographic by code point, a proper prefix is smaller.
StrLess(a, b) ==
    IF b = <<>> THEN FALSE
    ELSE IF a = <<>> THEN TRUE
    ELSE IF Ord(Head(a)) # Ord(Head(b)) THEN Ord(Head(a)) < Ord(Head(b))
    ELSE StrLess(Tail(a), Tail(b))

RECURSIVE Gcd(_, _)
Gcd(a, b) == IF b = 0 THEN a ELSE Gcd(b, a % b)

\* The rational n/d (d > 0, n >= 0) in lowest terms.
Rat(n, d) == LET g == Gcd(n, d) IN [num |-> n \div g, den |-> d \div g]

\* Ordered dict operations (dict, key in dict, dict.keys(), dict[key]).
DictHas(d, k) == \E i \in 1 .. Len(d) : d[i].key = k
DictKeys(d) == {d[i].key : i \in 1 .. Len(d)}
DictGet(d, k) == d[CHOOSE i \in 1 .. Len(d) : d[i].key = k].val

RECURSIVE DictSet(_, _, _)
\* d[k] = v: replaces the value in place, or appends a new key at the end.
DictSet(d, k, v) ==
    IF d = <<>> THEN <<[key |-> k, val |-> v]>>
    ELSE IF Head(d).key = k THEN <<[key |-> k, val |-> v]>> \o Tail(d)
    ELSE <<Head(d)>> \o DictSet(Tail(d), k, v)

\* dict.get(k): <<>> for None, <<v>> for the value v.
DictGetOpt(d, k) == IF DictHas(d, k) THEN <<DictGet(d, k)>> ELSE <<>>

\* The empty dict {}.
EmptyDict == [x \in {} |-> 0]

\* `not x` for the result of dict.get: None, or a dict without fields.
Falsy(x) == x = <<>> \/ DOMAIN x[1] = {}

\* ------------------------------------------------------------- input sets
\* The keys of a community map: the numerals of the node ids.
NodeKeys == {Str(n) : n \in NodeIds}

\* One entry of the community assignment artifact (compat view).
Entries == [macro_community : CommunityIds, micro_community : CommunityIds]

\* The key sequences of a community map as json.load returns it: no key twice,
\* any order.
KeySeqs ==
    {ks \in UNION {[1 .. n -> NodeKeys] : n \in 0 .. NumNodes} :
        \A i, j \in 1 .. Len(ks) : ks[i] = ks[j] => i = j}

\* The key sequences in ascending order, for a map that is only read by key.
SortedKeySeqs == {ks \in KeySeqs : \A i, j \in 1 .. Len(ks) : i < j => StrLess(ks[i], ks[j])}

\* The map with keys ks, in that order, and values vs.
MakeMap(ks, vs) == [i \in 1 .. Len(ks) |-> [key |-> ks[i], val |-> vs[i]]]

\* m is a community map with its keys in one of the orders of keyseqs.
IsCommunityMap(m, keyseqs) ==
    \E ks \in keyseqs : \E vs \in [1 .. Len(ks) -> Entries] : m = MakeMap(ks, vs)

\* ------------------------------------------------------------ DriftDetector
\* The result dict as constructed before the loop.
InitialDriftResults ==
    [stable_nodes |-> <<>>,
     migrated_nodes |-> <<>>,
     new_nodes |-> <<>>,
     summary |-> [total_nodes |-> 0, drift_count |-> 0, stability_index |-> Rat(0, 1)]]

\* len(set(current.keys()).union(set(baseline.keys())))
TotalNodesMutDoubleCount(current, baseline) == Len(current) + Len(baseline)

TotalNodes(current, baseline) == Cardinality(DictKeys(current) \cup DictKeys(baseline))

DriftTypeMutMicroFirst(is_macro_drift, is_micro_drift) ==
    IF is_micro_drift THEN "MICRO" ELSE "MACRO"

\* "MACRO" if is_macro_drift else "MICRO"
DriftType(is_macro_drift, is_micro_drift) == IF is_macro_drift THEN "MACRO" ELSE "MICRO"

\* The record appended to migrated_nodes.
MigrationRecord(node_id, prev, curr, is_macro_drift, is_micro_drift) ==
    [node_id |-> node_id,
     from_macro |-> prev["macro_community"],
     to_macro |-> curr["macro_community"],
     from_micro |-> prev["micro_community"],
     to_micro |-> curr["micro_community"],
     drift_type |-> DriftType(is_macro_drift, is_micro_drift)]

\* drift_count += 1 per level that changed instead of per node.
DriftIncrementMutPerLevel(is_macro_drift, is_micro_drift) ==
    (IF is_macro_drift THEN 1 ELSE 0) + (IF is_micro_drift THEN 1 ELSE 0)

\* drift_results["summary"]["drift_count"] += 1
DriftIncrement(is_macro_drift, is_micro_drift) == 1

\* The branch taken once prev is known to exist: migrated or stable.
CompareWithBaseline(res, node_id, curr, prev) ==
    LET is_macro_drift == curr["macro_community"] # prev["macro_community"]
        is_micro_drift == curr["micro_community"] # prev["micro_community"]
    IN  IF is_macro_drift \/ is_micro_drift
        THEN [res EXCEPT
                !.migrated_nodes =
                    Append(@, MigrationRecord(node_id, prev, curr,
                                              is_macro_drift, is_micro_drift)),
                !.summary.drift_count = @ + DriftIncrement(is_macro_drift, is_micro_drift)]
        ELSE [res EXCEPT !.stable_nodes = Append(@, node_id)]

\* A new node falls through to the comparison (the `continue` is missing):
\* it is compared with its own current entry.
ClassifyNodeMutNoContinue(res, node_id, curr, baseline) ==
    LET prev == DictGetOpt(baseline, node_id)
        res1 == IF Falsy(prev) THEN [res EXCEPT !.new_nodes = Append(@, node_id)] ELSE res
    IN  CompareWithBaseline(res1, node_id, curr, IF Falsy(prev) THEN curr ELSE prev[1])

\* One iteration of the loop over current_map.keys():
\* prev = baseline_map.get(node_id); if not prev: new_nodes.append; continue
ClassifyNode(res, node_id, curr, baseline) ==
    LET prev == DictGetOpt(baseline, node_id)
    IN  IF Falsy(prev)
        THEN [res EXCEPT !.new_nodes = Append(@, node_id)]
        ELSE CompareWithBaseline(res, node_id, curr, prev[1])

RECURSIVE DriftLoop(_, _, _, _)
\* for node_id in current_map.keys(): ..., from position i on.
DriftLoop(res, current, baseline, i) ==
    IF i > Len(current) THEN res
    ELSE DriftLoop(ClassifyNode(res, current[i].key, current[i].val, baseline),
                   current, baseline, i + 1)

\* drift_count / total instead of 1.0 - drift_count / total.
StabilityIndexMutNoComplement(drift_count, total) ==
    IF total > 0 THEN Rat(drift_count, total) ELSE Rat(0, 1)

\* if total > 0: 1.0 - (drift_count / total); otherwise the initial 0.0 stays.
StabilityIndex(drift_count, total) ==
    IF total > 0 THEN Rat(total - drift_count, total) ELSE Rat(0, 1)

detect_drift(current, baseline) ==
    LET r0 == [InitialDriftResults EXCEPT
                  !.summary.total_nodes = TotalNodes(current, baseline)]
        r1 == DriftLoop(r0, current, baseline, 1)
    IN  [r1 EXCEPT !.summary.stability_index =
                       StabilityIndex(r1.summary.drift_count, r1.summary.total_nodes)]

\* --------------------------------------------------------- BridgeIdentifier
\* One row of the projection CSV as pandas reads it (the weight column is not
\* read by this stage).
Rows == [source : NodeIds, target : NodeIds, type : EdgeTypes]

\* The projection CSV: any rows, in file order.
Projections == UNION {[1 .. n -> Rows] : n \in 0 .. MaxEdges}

\* The exception x[field] raises for the result x of dict.get, if any.
SubscriptError(x, field) ==
    IF x = <<>> THEN "TypeError"
    ELSE IF field \notin DOMAIN x[1] THEN "KeyError"
    ELSE NoError

\* The first exception of a sequence of evaluations.
FirstError(errs) ==
    IF \A i \in 1 .. Len(errs) : errs[i] = NoError THEN NoError
    ELSE errs[CHOOSE i \in 1 .. Len(errs) :
                  errs[i] # NoError /\ \A j \in 1 .. (i - 1) : errs[j] = NoError]

\* if node_id not in data: data[node_id] = {}
\* data[node_id][key] = data[node_id].get(key, 0) + 1
update_score(data, node_id, key) ==
    LET scores == IF DictHas(data, node_id) THEN DictGet(data, node_id) ELSE EmptyDict
        old == IF key \in DOMAIN scores THEN scores[key] ELSE 0
    IN  DictSet(data, node_id, (key :> (old + 1)) @@ scores)

\* Only the source of a crossing edge is credited.
ScoreLevelMutSourceOnly(data, src_id, tgt_id, src_comm, tgt_comm, level, key) ==
    IF src_comm[level] # tgt_comm[level]
    THEN update_score(data, src_id, key)
    ELSE data

\* Both endpoints get an entry in bridge_data even when the edge does not cross.
ScoreLevelMutAlwaysRegister(data, src_id, tgt_id, src_comm, tgt_comm, level, key) ==
    IF src_comm[level] # tgt_comm[level]
    THEN update_score(update_score(data, src_id, key), tgt_id, key)
    ELSE LET d1 == IF DictHas(data, src_id) THEN data ELSE DictSet(data, src_id, EmptyDict)
         IN  IF DictHas(d1, tgt_id) THEN d1 ELSE DictSet(d1, tgt_id, EmptyDict)

\* if src_comm[level] != tgt_comm[level]: _update_score(src); _update_score(tgt)
ScoreLevel(data, src_id, tgt_id, src_comm, tgt_comm, level, key) ==
    IF src_comm[level] # tgt_comm[level]
    THEN update_score(update_score(data, src_id, key), tgt_id, key)
    ELSE data

\* The edge is skipped only when both endpoints are missing.
SkipEdgeMutBothMissing(src_comm, tgt_comm) == Falsy(src_comm) /\ Falsy(tgt_comm)

\* if not src_comm or not tgt_comm: continue
SkipEdge(src_comm, tgt_comm) == Falsy(src_comm) \/ Falsy(tgt_comm)

\* One iteration of the loop over df.iterrows(); acc = [data, error], error
\* being the exception that ended the call, if any.
BridgeRow(acc, row, cmap) ==
    LET src_id == Str(row.source)
        tgt_id == Str(row.target)
        src_comm == DictGetOpt(cmap, src_id)
        tgt_comm == DictGetOpt(cmap, tgt_id)
        raised == FirstError(<<SubscriptError(src_comm, "macro_community"),
                               SubscriptError(tgt_comm, "macro_community"),
                               SubscriptError(src_comm, "micro_community"),
                               SubscriptError(tgt_comm, "micro_community")>>)
    IN  IF SkipEdge(src_comm, tgt_comm) THEN acc
        ELSE IF raised # NoError THEN [acc EXCEPT !.error = raised]
        ELSE LET d1 == ScoreLevel(acc.data, src_id, tgt_id, src_comm[1], tgt_comm[1],
                                  "macro_community", "macro_bridge_score")
                 d2 == ScoreLevel(d1, src_id, tgt_id, src_comm[1], tgt_comm[1],
                                  "micro_community", "micro_bridge_score")
             IN  [acc EXCEPT !.data = d2]

RECURSIVE BridgeLoop(_, _, _, _)
\* for _, row in df.iterrows(): ..., from row i on; an exception ends the loop.
BridgeLoop(acc, rows, cmap, i) ==
    IF i > Len(rows) \/ acc.error # NoError THEN acc
    ELSE BridgeLoop(BridgeRow(acc, rows[i], cmap), rows, cmap, i + 1)

\* The list entry built from one item of bridge_data.
BridgeEntry(item) ==
    [node_id |-> item.key,
     macro_score |-> IF "macro_bridge_score" \in DOMAIN item.val
                     THEN item.val["macro_bridge_score"] ELSE 0,
     micro_score |-> IF "micro_bridge_score" \in DOMAIN item.val
                     THEN item.val["micro_bridge_score"] ELSE 0]

\* The micro score is compared first.
SortKeyLessMutMicroFirst(a, b) ==
    \/ a.micro_score < b.micro_score
    \/ a.micro_score = b.micro_score /\ a.macro_score < b.macro_score

\* key(a) < key(b) for key = (macro_score, micro_score): tuple comparison.
SortKeyLess(a, b) ==
    \/ a.macro_score < b.macro_score
    \/ a.macro_score = b.macro_score /\ a.micro_score < b.micro_score

RECURSIVE InsertDescending(_, _)
\* x placed after every entry whose key is >= its own.
InsertDescending(x, sorted) ==
    IF sorted = <<>> THEN <<x>>
    ELSE IF SortKeyLess(Head(sorted), x) THEN <<x>> \o sorted
    ELSE <<Head(sorted)>> \o InsertDescending(x, Tail(sorted))

RECURSIVE SortBridges(_)
\* bridges.sort(key=..., reverse=True): descending and stable (equal keys keep
\* their list order).
SortBridges(l) ==
    IF l = <<>> THEN <<>>
    ELSE InsertDescending(l[Len(l)], SortBridges(SubSeq(l, 1, Len(l) - 1)))

\* identify_bridges: [bridges, error]; nothing is returned when an exception ends the call.
identify_bridges(rows, cmap) ==
    LET acc == BridgeLoop([data |-> <<>>, error |-> NoError], rows, cmap, 1)
        bridges_list == [i \in 1 .. Len(acc.data) |-> BridgeEntry(acc.data[i])]
    IN  IF acc.error # NoError THEN [bridges |-> <<>>, error |-> acc.error]
        ELSE [bridges |-> SortBridges(bridges_list), error |-> NoError]

\* ------------------------------------------------------------ Fingerprinter
\* groups[community_id] = [str(node_id)]: the list is replaced instead of extended.
GroupAppendMutOverwrite(groups, community_id, node_id) ==
    DictSet(groups, community_id, <<node_id>>)

\* groups[community_id].append(str(node_id)) on a defaultdict(list); the keys of
\* a loaded map are str already, so str(node_id) is the key itself.
GroupAppend(groups, community_id, node_id) ==
    DictSet(groups, community_id,
            (IF DictHas(groups, community_id) THEN DictGet(groups, community_id) ELSE <<>>)
                \o <<node_id>>)

RECURSIVE GroupLoop(_, _, _, _)
\* for node_id, comms in community_map.items(): one level's grouping, from item i on.
GroupLoop(groups, cmap, level, i) ==
    IF i > Len(cmap) THEN groups
    ELSE GroupLoop(GroupAppend(groups, cmap[i].val[level], cmap[i].key), cmap, level, i + 1)

RECURSIVE InsertAscending(_, _)
\* x placed after every string that is <= x.
InsertAscending(x, sorted) ==
    IF sorted = <<>> THEN <<x>>
    ELSE IF StrLess(x, Head(sorted)) THEN <<x>> \o sorted
    ELSE <<Head(sorted)>> \o InsertAscending(x, Tail(sorted))

\* The member list is hashed in discovery order.
SortStringsMutNoSort(l) == l

RECURSIVE SortStrings(_)
\* sorted(node_list) on a list of str.
SortStrings(l) ==
    IF l = <<>> THEN <<>>
    ELSE InsertAscending(l[Len(l)], SortStrings(SubSeq(l, 1, Len(l) - 1)))

RECURSIVE Join(_)
\* ",".join(strings)
Join(strings) ==
    IF strings = <<>> THEN <<>>
    ELSE IF Len(strings) = 1 THEN strings[1]
    ELSE strings[1] \o <<",">> \o Join(Tail(strings))

\* hashlib.sha256(content.encode()).hexdigest(): the digest is not computed; it
\* is a value determined by the content, distinct contents giving distinct values.
Sha256Hex(content) == [sha256 |-> content]

\* _hash_nodes
hash_nodes(node_list) == Sha256Hex(Join(SortStrings(node_list)))

RECURSIVE HashLoop(_, _, _)
\* for m_id, nodes in groups.items(): out[str(m_id)] = self._hash_nodes(nodes)
HashLoop(out, groups, i) ==
    IF i > Len(groups) THEN out
    ELSE HashLoop(DictSet(out, Str(groups[i].key), hash_nodes(groups[i].val)), groups, i + 1)

\* The fingerprints dict before it is filled.
InitialFingerprints == [macro_communities |-> <<>>, micro_communities |-> <<>>]

generate_fingerprints(cmap) ==
    LET macro_groups == GroupLoop(<<>>, cmap, "macro_community", 1)
        micro_groups == GroupLoop(<<>>, cmap, "micro_community", 1)
    IN  [macro_communities |-> HashLoop(<<>>, macro_groups, 1),
         micro_communities |-> HashLoop(<<>>, micro_groups, 1)]

\* ----------------------------------------------------------- TopologyFilter
\* The rows of the projection CSV as extract_hubs reads them.  The weight cell
\* ("1.0000", in ten-thousandths) is only handed on to pagerank.
Weights == {10000}
HubRows == [source : NodeIds, target : NodeIds, weight : Weights]
HubProjections == UNION {[1 .. n -> HubRows] : n \in 0 .. MaxEdges}

\* top_k is a count of hubs to keep per community.
TopKs == 0 .. MaxTopK

\* The scores g.pagerank returns: fractions strictly between 0 and 1.
PageRankScores == {Rat(n, MaxScore + 1) : n \in 1 .. MaxScore}

\* a < b on the floats a and b.
RatLess(a, b) == a.num * b.den < b.num * a.den

\* x in l, for a list l.
InList(x, l) == \E i \in 1 .. Len(l) : l[i] = x

\* The last k entries are taken instead of the first k.
SliceMutFromEnd(l, k) ==
    IF k >= Len(l) THEN l ELSE SubSeq(l, Len(l) - k + 1, Len(l))

\* l[:k], with Python's reading of a negative k (counted from the end).
Slice(l, k) ==
    IF k >= 0 THEN SubSeq(l, 1, IF k < Len(l) THEN k ELSE Len(l))
    ELSE SubSeq(l, 1, IF Len(l) + k > 0 THEN Len(l) + k ELSE 0)

HubGroupLevelMutMacro == "macro_community"

\* comm_to_nodes is keyed by data['micro_community'].
HubGroupLevel == "micro_community"

\* comm_to_nodes[data['micro_community']].append(node_id), over community_map.items()
comm_to_nodes(cmap) == GroupLoop(<<>>, cmap, HubGroupLevel, 1)

\* [{"node_id": n, "rank": 1, "score": 1.0} for n in nodes]
TrivialHubs(nodes) ==
    [i \in 1 .. Len(nodes) |-> [node_id |-> nodes[i], rank |-> 1, score |-> Rat(1, 1)]]

\* The list is cut to top_k as in the branch without edges.
DegenerateHubsMutSliced(nodes, top_k) == TrivialHubs(Slice(nodes, top_k))

\* The branch len(nodes) < 2: every member, top_k is not consulted.
DegenerateHubs(nodes, top_k) == TrivialHubs(nodes)

\* Only the source of a row is required to be in nodes.
InternalEdgesMutSourceOnly(edges_df, nodes) ==
    SelectSeq(edges_df, LAMBDA row : InList(Str(row.source), nodes))

\* The rows whose source and target, as str, are both in nodes.
InternalEdges(edges_df, nodes) ==
    SelectSeq(edges_df, LAMBDA row : InList(Str(row.source), nodes) /\ InList(Str(row.target), nodes))

RECURSIVE VertexNames(_, _, _)
\* g.vs['name'] of Graph.TupleList: the endpoints in order of first appearance,
\* the source of a tuple before its target.
VertexNames(names, tuples, i) ==
    IF i > Len(tuples) THEN names
    ELSE LET with_src == IF InList(tuples[i].source, names) THEN names
                         ELSE Append(names, tuples[i].source)
             with_tgt == IF InList(tuples[i].target, with_src) THEN with_src
                         ELSE Append(with_src, tuples[i].target)
         IN  VertexNames(with_tgt, tuples, i + 1)

\* node_scores: {"node_id": str(int(name)), "score": scores[idx]} per vertex.
NodeScores(names, scores) ==
    [idx \in 1 .. Len(names) |-> [node_id |-> Str(names[idx]), score |-> scores[names[idx]]]]

\* The sort is ascending.
HubScoreLessMutAscending(a, b) == RatLess(b.score, a.score)

\* key(a) < key(b) for key = x['score'].
HubScoreLess(a, b) == RatLess(a.score, b.score)

RECURSIVE InsertByScore(_, _)
\* x placed after every entry whose score is >= its own.
InsertByScore(x, sorted) ==
    IF sorted = <<>> THEN <<x>>
    ELSE IF HubScoreLess(Head(sorted), x) THEN <<x>> \o sorted
    ELSE <<Head(sorted)>> \o InsertByScore(x, Tail(sorted))

RECURSIVE SortByScore(_)
\* node_scores.sort(key=lambda x: x['score'], reverse=True): descending, stable.
SortByScore(l) ==
    IF l = <<>> THEN <<>>
    ELSE InsertByScore(l[Len(l)], SortByScore(SubSeq(l, 1, Len(l) - 1)))

\* for rank, hub in enumerate(top_hubs, 1): hub['rank'] = rank
AddRanks(top_hubs) ==
    [i \in 1 .. Len(top_hubs) |->
        [node_id |-> top_hubs[i].node_id, score |-> top_hubs[i].score, rank |-> i]]

\* The body of the loop over communities: the list stored for one community.
\* scores is the PageRank of every vertex in the sub-graph of its community.
CommunityHubs(nodes, edges_df, top_k, scores) ==
    IF Len(nodes) < 2 THEN DegenerateHubs(nodes, top_k)
    ELSE LET comm_edges_df == InternalEdges(edges_df, nodes)
         IN  IF comm_edges_df = <<>> THEN TrivialHubs(Slice(nodes, top_k))
             ELSE LET names == VertexNames(<<>>, comm_edges_df, 1)
                      node_scores == SortByScore(NodeScores(names, scores))
                  IN  AddRanks(Slice(node_scores, top_k))

RECURSIVE HubLoop(_, _, _, _, _, _)
\* for comm_id, nodes in comm_to_nodes.items(): community_hubs[str(comm_id)] = ...
HubLoop(out, groups, i, edges_df, top_k, scores) ==
    IF i > Len(groups) THEN out
    ELSE HubLoop(DictSet(out, Str(groups[i].key),
                         CommunityHubs(groups[i].val, edges_df, top_k, scores)),
                 groups, i + 1, edges_df, top_k, scores)

extract_hubs(edges_df, cmap, top_k, scores) ==
    HubLoop(<<>>, comm_to_nodes(cmap), 1, edges_df, top_k, scores)

\* ------------------------------------------------- LeidenEngineHierarchical
\* Resolution values 0.01, 0.1 and 1.0, in hundredths.
ResolutionValues == {1, 10, 100}

\* The lists a caller may pass as resolutions: each level's resolution once, in
\* any order.
ResolutionLists ==
    {l \in UNION {[1 .. n -> ResolutionValues] : n \in 0 .. MaxLevels} :
        \A i, j \in 1 .. Len(l) : l[i] = l[j] => i = j}

RECURSIVE InsertResolution(_, _)
\* x placed after every value that is <= x.
InsertResolution(x, sorted) ==
    IF sorted = <<>> THEN <<x>>
    ELSE IF x < Head(sorted) THEN <<x>> \o sorted
    ELSE <<Head(sorted)>> \o InsertResolution(x, Tail(sorted))

\* The list is kept in the caller's order.
SortResolutionsMutUnsorted(l) == l

RECURSIVE SortResolutions(_)
\* sorted(resolutions)
SortResolutions(l) ==
    IF l = <<>> THEN <<>>
    ELSE InsertResolution(l[Len(l)], SortResolutions(SubSeq(l, 1, Len(l) - 1)))

RECURSIVE EmptyPaths(_, _, _)
\* for node_name in g.vs['name']: hierarchical_map[str(int(node_name))] = {"path": []}
EmptyPaths(hmap, names, i) ==
    IF i > Len(names) THEN hmap
    ELSE EmptyPaths(DictSet(hmap, Str(names[i]), [path |-> <<>>]), names, i + 1)

RECURSIVE LevelLoopMutReset(_, _, _, _)
\* level_data["communities"][comm_id] = [] runs for every vertex, not only for
\* the first vertex of the community.
LevelLoopMutReset(acc, names, membership, idx) ==
    IF idx > Len(names) THEN acc
    ELSE LET comm_id == membership[idx]
             key == Str(names[idx])
             old == DictGet(acc.hmap, key)
         IN  LevelLoopMutReset(
                 [hmap |-> DictSet(acc.hmap, key, [path |-> Append(old.path, comm_id)]),
                  communities |-> DictSet(acc.communities, comm_id, <<key>>)],
                 names, membership, idx + 1)

RECURSIVE LevelLoop(_, _, _, _)
\* for idx, node_name in enumerate(g.vs['name']): one level's inner loop over the
\* vertices, from vertex idx on.  acc = [hmap, communities].
LevelLoop(acc, names, membership, idx) ==
    IF idx > Len(names) THEN acc
    ELSE LET comm_id == membership[idx]
             key == Str(names[idx])
             old == DictGet(acc.hmap, key)
             communities == IF DictHas(acc.communities, comm_id) THEN acc.communities
                            ELSE DictSet(acc.communities, comm_id, <<>>)
         IN  LevelLoop([hmap |-> DictSet(acc.hmap, key, [path |-> Append(old.path, comm_id)]),
                        communities |-> DictSet(communities, comm_id,
                                                Append(DictGet(communities, comm_id), key))],
                       names, membership, idx + 1)

RECURSIVE ResolutionLoop(_, _, _, _, _)
\* for i, res in enumerate(self.resolutions): partitions[i] is the membership
\* that find_partition returned for that call.  acc = [hmap, levels].
ResolutionLoop(acc, names, resolutions, partitions, i) ==
    IF i > Len(resolutions) THEN acc
    ELSE LET level == LevelLoop([hmap |-> acc.hmap, communities |-> <<>>], names, partitions[i], 1)
             level_data == [resolution |-> resolutions[i], communities |-> level.communities]
         IN  ResolutionLoop([hmap |-> level.hmap, levels |-> Append(acc.levels, level_data)],
                            names, resolutions, partitions, i + 1)

\* cluster: [hierarchical_map, tree] for the memberships the partition calls return.
cluster(rows, resolutions, partitions) ==
    LET names == VertexNames(<<>>, rows, 1)
        acc == ResolutionLoop([hmap |-> EmptyPaths(<<>>, names, 1), levels |-> <<>>],
                              names, resolutions, partitions, 1)
    IN  [hierarchical_map |-> acc.hmap, tree |-> [levels |-> acc.levels]]

\* The second level is taken for the micro community.
CompatEntryMutSecondLevel(data) ==
    [macro_community |-> data.path[1],
     micro_community |-> data.path[IF Len(data.path) >= 2 THEN 2 ELSE 1]]

\* {"macro_community": data["path"][0], "micro_community": data["path"][-1]}
CompatEntry(data) ==
    [macro_community |-> data.path[1], micro_community |-> data.path[Len(data.path)]]

\* The compatibility view of save_results; IndexError when a path is empty.
compat_view(hmap) ==
    IF \E i \in 1 .. Len(hmap) : hmap[i].val.path = <<>>
    THEN [compat_map |-> <<>>, error |-> "IndexError"]
    ELSE [compat_map |-> [i \in 1 .. Len(hmap) |->
                            [key |-> hmap[i].key, val |-> CompatEntry(hmap[i].val)]],
          error |-> NoError]

\* ----------------------------------------------------------- GraphProjector
Abs(n) == IF n < 0 THEN 0 - n ELSE n

\* The float n/d (d # 0) as a signed fraction in lowest terms, den > 0.
SRat(n, d) ==
    LET g == Gcd(Abs(n), Abs(d))
        sign == IF d < 0 THEN 0 - 1 ELSE 1
    IN  [num |-> sign * (n \div g), den |-> sign * (d \div g)]

\* a * b and a >= b on floats.
RatMul(a, b) == SRat(a.num * b.num, a.den * b.den)
\* The comparison is strict: a > b.
RatGeqMutStrict(a, b) == a.num * b.den > b.num * a.den

RatGeq(a, b) == a.num * b.den >= b.num * a.den

\* Embedding vectors, two components each: a zero vector, a unit vector and a
\* vector of norm 5 at an obtuse angle to it.
Vectors == {<<0, 0>>, <<1, 0>>, <<0 - 3, 4>>}

\* Constructor arguments: alpha = 1.0, beta = 0.5 (the defaults), and a
\* similarity_threshold of 0.85 (the default), 0 or -1.
Alphas == {SRat(1, 1)}
Betas == {SRat(1, 2)}
Thresholds == {SRat(17, 20), SRat(0, 1), SRat(0 - 1, 1)}

\* The (source, target) causal links handed in as edges.
Links == [source : NodeKeys, target : NodeKeys]
LinkLists == UNION {[1 .. n -> Links] : n \in 0 .. MaxEdges}

\* np.dot(vec_a, vec_b)
Dot(vec_a, vec_b) == vec_a[1] * vec_b[1] + vec_a[2] * vec_b[2]

\* np.linalg.norm(vec): the vectors drawn have whole norms.
Norm(vec) == CHOOSE n \in 0 .. Dot(vec, vec) : n * n = Dot(vec, vec)

cosine_similarity(vec_a, vec_b) ==
    LET norm_a == Norm(vec_a)
        norm_b == Norm(vec_b)
    IN  IF norm_a = 0 \/ norm_b = 0 THEN SRat(0, 1)
        ELSE SRat(Dot(vec_a, vec_b), norm_a * norm_b)

RECURSIVE StructuralLoopMutDedup(_, _, _, _)
\* A link whose (source, target) was already emitted is dropped.
StructuralLoopMutDedup(projected_edges, edges, alpha, k) ==
    IF k > Len(edges) THEN projected_edges
    ELSE IF \E m \in 1 .. Len(projected_edges) :
               /\ projected_edges[m].source = edges[k].source
               /\ projected_edges[m].target = edges[k].target
         THEN StructuralLoopMutDedup(projected_edges, edges, alpha, k + 1)
         ELSE StructuralLoopMutDedup(Append(projected_edges,
                                            [source |-> edges[k].source,
                                             target |-> edges[k].target,
                                             weight |-> alpha, type |-> "structural"]),
                                     edges, alpha, k + 1)

RECURSIVE StructuralLoop(_, _, _, _)
\* for edge in edges: projected_edges.append((src, tgt, self.alpha, "structural"))
StructuralLoop(projected_edges, edges, alpha, k) ==
    IF k > Len(edges) THEN projected_edges
    ELSE StructuralLoop(Append(projected_edges,
                               [source |-> edges[k].source, target |-> edges[k].target,
                                weight |-> alpha, type |-> "structural"]),
                        edges, alpha, k + 1)

\* The body of the inner loop for the index pair (i, j), 1-based here.
\* acc = [projected_edges, error]; a list index out of range raises IndexError.
SemanticPair(acc, node_ids, embeddings, beta, threshold, i, j) ==
    IF i > Len(embeddings) \/ j > Len(embeddings)
    THEN [acc EXCEPT !.error = "IndexError"]
    ELSE LET sim == cosine_similarity(embeddings[i], embeddings[j])
         IN  IF RatGeq(sim, threshold)
             THEN [acc EXCEPT !.projected_edges =
                      Append(@, [source |-> node_ids[i], target |-> node_ids[j],
                                 weight |-> RatMul(sim, beta), type |-> "semantic"])]
             ELSE acc

RECURSIVE SemanticLoop(_, _, _, _, _, _, _)
\* for i in range(num_nodes): for j in range(i + 1, num_nodes): from pair (i, j) on.
SemanticLoop(acc, node_ids, embeddings, beta, threshold, i, j) ==
    IF acc.error # NoError \/ i > Len(node_ids) THEN acc
    ELSE IF j > Len(node_ids)
         THEN SemanticLoop(acc, node_ids, embeddings, beta, threshold, i + 1, i + 2)
         ELSE SemanticLoop(SemanticPair(acc, node_ids, embeddings, beta, threshold, i, j),
                           node_ids, embeddings, beta, threshold, i, j + 1)

\* build_projection: [projected_edges, error]; nothing is returned when an
\* exception ends the call.
build_projection(node_ids, edges, embeddings, alpha, beta, threshold) ==
    LET structural == StructuralLoop(<<>>, edges, alpha, 1)
        acc == SemanticLoop([projected_edges |-> structural, error |-> NoError],
                            node_ids, embeddings, beta, threshold, 1, 2)
    IN  IF acc.error # NoError THEN [projected_edges |-> <<>>, error |-> acc.error]
        ELSE acc

\* ------------------------------------------------------------------- state
VARIABLES
    pc,             \* "start" before the stage under analysis has run, "done" after its
                    \* last call ("first", "reordered": between the two fingerprint calls)
    current_map,    \* DriftDetector: the current community map
    baseline_map,   \* DriftDetector: the baseline community map
    drift_results,  \* DriftDetector: the value detect_drift returned
    df,             \* BridgeIdentifier: the rows of the projection CSV
    community_map,  \* BridgeIdentifier, Fingerprinter, TopologyFilter: the community map read
    bridges,        \* BridgeIdentifier: the list identify_bridges returned
    error,          \* the exception that ended the stage, NoError if it returned
    fingerprints,   \* Fingerprinter: the dict the first generate_fingerprints call returned
    reordered_map,  \* Fingerprinter: the community map as the second call reads it
    test_fps_v2,    \* Fingerprinter: the dict the second call returned
    edges_df,       \* TopologyFilter, LeidenEngineHierarchical: the rows of the projection CSV
    top_k,          \* TopologyFilter: self.top_k
    pagerank,       \* TopologyFilter: the score g.pagerank gave each vertex, <<>> before
    community_hubs, \* TopologyFilter: the dict extract_hubs returned
    other_edges_df, \* TopologyFilter: the rows of a second projection CSV
    other_pagerank, \* TopologyFilter: the scores g.pagerank gave on the second projection
    other_hubs,     \* TopologyFilter: the dict extract_hubs returned for the second projection
    resolutions_arg,    \* LeidenEngineHierarchical: the resolutions the caller passed
    resolutions,        \* LeidenEngineHierarchical: self.resolutions
    partition_calls,    \* the find_partition calls made so far: resolution and membership
    hierarchical_map,   \* LeidenEngineHierarchical: the map cluster returned
    tree,               \* LeidenEngineHierarchical: the tree cluster returned
    compat_map,         \* LeidenEngineHierarchical: the compatibility view save_results wrote
    nodes,              \* GraphProjector: list(nodes.keys())
    edges,              \* GraphProjector: the structural edges passed in
    embeddings,         \* GraphProjector: the embedding vectors passed in
    alpha,              \* GraphProjector: self.alpha
    beta,               \* GraphProjector: self.beta
    threshold,          \* GraphProjector: self.threshold
    projected_edges,    \* GraphProjector: the list build_projection returned
    runs,               \* the calls of identify_bridges, generate_fingerprints, extract_hubs returned so far
    call_maps,          \* the grouping maps the last call of each of the three built
    primitive,          \* la.find_partition on the graph of edges_df, per resolution
    res_macro,          \* LeidenEngine: self.res_macro
    res_micro,          \* LeidenEngine: self.res_micro
    two_level_map       \* LeidenEngine: the community map cluster returned

vars == <<pc, current_map, baseline_map, drift_results, df, community_map, bridges, error,
          fingerprints, reordered_map, test_fps_v2, edges_df, top_k, pagerank, community_hubs,
          other_edges_df, other_pagerank, other_hubs,
          resolutions_arg, resolutions, partition_calls, hierarchical_map, tree, compat_map,
          nodes, edges, embeddings, alpha, beta, threshold, projected_edges,
          runs, call_maps, primitive, res_macro, res_micro, two_level_map>>

driftVars == <<current_map, baseline_map, drift_results>>
bridgeVars == <<df, community_map, bridges>>
fingerprintVars == <<fingerprints, reordered_map, test_fps_v2>>
otherHubVars == <<other_edges_df, other_pagerank, other_hubs>>

hubVars == <<edges_df, top_k, pagerank, community_hubs, otherHubVars>>

hierVars == <<resolutions_arg, resolutions, partition_calls, hierarchical_map, tree, compat_map>>

projectorVars == <<nodes, edges, embeddings, alpha, beta, threshold, projected_edges>>

analysisVars == <<runs, call_maps>>

leidenVars == <<primitive, res_macro, res_micro, two_level_map>>

\* None of the three analyses has been called.
NoRuns == [bridge |-> 0, fingerprint |-> 0, hub |-> 0]
NoCallMaps == [bridge_data |-> <<>>, macro_groups |-> <<>>, micro_groups |-> <<>>, comm_to_nodes |-> <<>>]
AnalysesIdle == runs = NoRuns /\ call_maps = NoCallMaps

\* No two-level engine has been constructed (resolutions in hundredths).
LeidenIdle == primitive = <<>> /\ res_macro = 10 /\ res_micro = 100 /\ two_level_map = <<>>

\* No projector has been constructed.
ProjectorIdle ==
    /\ nodes = <<>> /\ edges = <<>> /\ embeddings = <<>> /\ projected_edges = <<>>
    /\ alpha = SRat(1, 1) /\ beta = SRat(1, 2) /\ threshold = SRat(17, 20)

\* No hierarchical engine has been constructed.
HierIdle ==
    /\ resolutions_arg = <<>> /\ resolutions = <<>> /\ partition_calls = <<>>
    /\ hierarchical_map = <<>> /\ tree = <<>> /\ compat_map = <<>>

\* The hub stage has not been given anything.
OtherHubIdle == other_edges_df = <<>> /\ other_pagerank = <<>> /\ other_hubs = <<>>

HubIdle ==
    /\ edges_df = <<>> /\ top_k = 0 /\ pagerank = <<>> /\ community_hubs = <<>>
    /\ OtherHubIdle

\* ---------------------------------------------------------- drift analysis
\* The two maps are loaded.  current_map is iterated, so every key order is
\* drawn; baseline_map is read through .get and set(keys()) only and is drawn
\* in ascending key order.
InitDrift ==
    /\ pc = "start"
    /\ AnalysesIdle /\ LeidenIdle
    /\ ProjectorIdle
    /\ HierIdle
    /\ HubIdle
    /\ IsCommunityMap(current_map, KeySeqs)
    /\ IsCommunityMap(baseline_map, SortedKeySeqs)
    /\ drift_results = InitialDriftResults
    /\ df = <<>> /\ community_map = <<>> /\ bridges = <<>>
    /\ error = NoError
    /\ fingerprints = InitialFingerprints /\ test_fps_v2 = InitialFingerprints
    /\ reordered_map = <<>>

DetectDrift ==
    /\ pc = "start"
    /\ pc' = "done"
    /\ drift_results' = detect_drift(current_map, baseline_map)
    /\ UNCHANGED <<current_map, baseline_map, bridgeVars, error, fingerprintVars, hubVars, analysisVars,
                   leidenVars, hierVars,
                   projectorVars>>

NextDrift == DetectDrift

SpecDrift == InitDrift /\ [][NextDrift]_vars

\* ------------------------------------------------- drift analysis: claims
SeqToSet(s) == {s[i] : i \in 1 .. Len(s)}
NoDuplicates(s) == \A i, j \in 1 .. Len(s) : s[i] = s[j] => i = j
MigratedIds == [i \in 1 .. Len(drift_results.migrated_nodes) |->
                    drift_results.migrated_nodes[i].node_id]
InCurrent(n) == DictHas(current_map, n)
InBaseline(n) == DictHas(baseline_map, n)
MacroDiffers(n) ==
    DictGet(current_map, n)["macro_community"] # DictGet(baseline_map, n)["macro_community"]
MicroDiffers(n) ==
    DictGet(current_map, n)["micro_community"] # DictGet(baseline_map, n)["micro_community"]
BaselineOnly == {n \in NodeKeys : InBaseline(n) /\ ~InCurrent(n)}

\* C1: detect_drift puts every node id of current into exactly one of new_nodes
\* (absent from baseline), migrated_nodes (in baseline, macro or micro id
\* different) and stable_nodes (in baseline, both ids equal); no list repeats a
\* node and no other node id (in particular no baseline-only node) is listed.
C1_DriftClassification ==
    pc = "done" =>
        /\ NoDuplicates(drift_results.new_nodes)
        /\ NoDuplicates(drift_results.stable_nodes)
        /\ NoDuplicates(MigratedIds)
        /\ \A n \in NodeKeys :
            /\ n \in SeqToSet(drift_results.new_nodes)
                  <=> (InCurrent(n) /\ ~InBaseline(n))
            /\ n \in SeqToSet(MigratedIds)
                  <=> (InCurrent(n) /\ InBaseline(n)
                          /\ (MacroDiffers(n) \/ MicroDiffers(n)))
            /\ n \in SeqToSet(drift_results.stable_nodes)
                  <=> (InCurrent(n) /\ InBaseline(n)
                          /\ ~MacroDiffers(n) /\ ~MicroDiffers(n))

\* A run with a new node, a migrated node and a node present only in baseline.
C1_Witness ==
    /\ pc = "done"
    /\ drift_results.new_nodes # <<>>
    /\ drift_results.migrated_nodes # <<>>
    /\ BaselineOnly # {}

\* C2: summary.total_nodes is the number of distinct node ids occurring in
\* current or in baseline: a node in both counts once, a baseline-only node counts.
C2_TotalNodesIsUnionSize ==
    pc = "done" =>
        drift_results.summary.total_nodes =
            Cardinality({n \in NodeKeys : InCurrent(n) \/ InBaseline(n)})

\* A run with a node in both maps and a node only in baseline.
C2_Witness ==
    /\ pc = "done"
    /\ \E n \in NodeKeys : InCurrent(n) /\ InBaseline(n)
    /\ BaselineOnly # {}

\* C3: drift_count <= total_nodes; stability_index = 1 - drift_count/total_nodes,
\* lies in [0, 1] and is 1 only if nothing migrated; with both maps empty
\* (total_nodes = 0) it is 0.0.
C3_StabilityIndex ==
    pc = "done" =>
        LET s == drift_results.summary
            si == s.stability_index
        IN  /\ s.drift_count <= s.total_nodes
            /\ si.den > 0 /\ 0 <= si.num /\ si.num <= si.den
            /\ s.total_nodes > 0 =>
                   si.num * s.total_nodes = (s.total_nodes - s.drift_count) * si.den
            /\ si.num = si.den => drift_results.migrated_nodes = <<>>
            /\ s.total_nodes = 0 => si.num = 0

\* A run where some but not all nodes migrated: the index is strictly inside (0, 1).
C3_Witness ==
    /\ pc = "done"
    /\ 0 < drift_results.summary.drift_count
    /\ drift_results.summary.drift_count < drift_results.summary.total_nodes
    /\ 0 < drift_results.summary.stability_index.num
    /\ drift_results.summary.stability_index.num < drift_results.summary.stability_index.den

\* C4: every migrated record has from_macro/from_micro = the node's baseline ids,
\* to_macro/to_micro = its current ids, drift_type MACRO exactly when the macro
\* ids differ and MICRO exactly when only the micro ids differ.
C4_MigrationRecord ==
    pc = "done" =>
        \A i \in 1 .. Len(drift_results.migrated_nodes) :
            LET m == drift_results.migrated_nodes[i]
                n == m.node_id
            IN  /\ InCurrent(n) /\ InBaseline(n)
                /\ m.from_macro = DictGet(baseline_map, n)["macro_community"]
                /\ m.from_micro = DictGet(baseline_map, n)["micro_community"]
                /\ m.to_macro = DictGet(current_map, n)["macro_community"]
                /\ m.to_micro = DictGet(current_map, n)["micro_community"]
                /\ m.drift_type \in {"MACRO", "MICRO"}
                /\ m.drift_type = "MACRO" <=> m.from_macro # m.to_macro
                /\ m.drift_type = "MICRO" <=>
                       (m.from_macro = m.to_macro /\ m.from_micro # m.to_micro)

\* A node whose macro and micro ids both changed, next to one whose micro id alone changed.
C4_Witness ==
    /\ pc = "done"
    /\ \E i, j \in 1 .. Len(drift_results.migrated_nodes) :
          LET a == drift_results.migrated_nodes[i]
              b == drift_results.migrated_nodes[j]
          IN  /\ a.from_macro # a.to_macro /\ a.from_micro # a.to_micro
              /\ b.from_macro = b.to_macro /\ b.drift_type = "MICRO"

\* C5: summary.drift_count is the number of migrated records (one per migrated
\* node, also when both its ids changed); new and baseline-only nodes add to
\* total_nodes but not to drift_count.
C5_DriftCount ==
    pc = "done" =>
        /\ drift_results.summary.drift_count = Len(drift_results.migrated_nodes)
        /\ drift_results.summary.drift_count + Len(drift_results.new_nodes)
              + Cardinality(BaselineOnly) <= drift_results.summary.total_nodes

\* A node with both ids changed, a new node and a baseline-only node in one run.
C5_Witness ==
    /\ pc = "done"
    /\ \E i \in 1 .. Len(drift_results.migrated_nodes) :
          /\ drift_results.migrated_nodes[i].from_macro # drift_results.migrated_nodes[i].to_macro
          /\ drift_results.migrated_nodes[i].from_micro # drift_results.migrated_nodes[i].to_micro
    /\ drift_results.new_nodes # <<>>
    /\ BaselineOnly # {}
    /\ drift_results.summary.drift_count = 1
    /\ drift_results.summary.total_nodes = 3

\* --------------------------------------------------------- bridge analysis
\* The projection rows in file order and the community map, which is read
\* through .get only and is drawn in ascending key order.
InitBridge ==
    /\ pc = "start"
    /\ AnalysesIdle /\ LeidenIdle
    /\ ProjectorIdle
    /\ HierIdle
    /\ HubIdle
    /\ df \in Projections
    /\ IsCommunityMap(community_map, SortedKeySeqs)
    /\ bridges = <<>>
    /\ error = NoError
    /\ current_map = <<>> /\ baseline_map = <<>>
    /\ drift_results = InitialDriftResults
    /\ fingerprints = InitialFingerprints /\ test_fps_v2 = InitialFingerprints
    /\ reordered_map = <<>>

IdentifyBridges ==
    /\ pc = "start"
    /\ pc' = "done"
    /\ LET r == identify_bridges(df, community_map)
       IN  bridges' = r.bridges /\ error' = r.error
    /\ UNCHANGED <<df, community_map, driftVars, fingerprintVars, hubVars, analysisVars,
                   leidenVars, hierVars, projectorVars>>

NextBridge == IdentifyBridges

SpecBridge == InitBridge /\ [][NextBridge]_vars

\* ------------------------------------------------ bridge analysis: claims
HasEntry(k) == DictHas(community_map, k)
SrcKey(i) == Str(df[i].source)
TgtKey(i) == Str(df[i].target)
BothAssigned(i) == HasEntry(SrcKey(i)) /\ HasEntry(TgtKey(i))
MissingEndpoint(i) == ~HasEntry(SrcKey(i)) \/ ~HasEntry(TgtKey(i))
Incident(i, k) == k = SrcKey(i) \/ k = TgtKey(i)
\* Row i joins two assigned nodes whose community ids differ at the level.
Crosses(i, level) ==
    /\ BothAssigned(i)
    /\ DictGet(community_map, SrcKey(i))[level] # DictGet(community_map, TgtKey(i))[level]
\* The number of rows (with multiplicity) incident to k that cross at the level.
CrossCount(k, level) ==
    Cardinality({i \in 1 .. Len(df) : Crosses(i, level) /\ Incident(i, k)})
Listed(k) == \E j \in 1 .. Len(bridges) : bridges[j].node_id = k
RemoveAt(s, i) == SubSeq(s, 1, i - 1) \o SubSeq(s, i + 1, Len(s))
\* The moment k first receives a score: the first crossing row incident to k,
\* its source being scored before its target.
FirstSeen(k) ==
    LET i == CHOOSE r \in 1 .. Len(df) :
                 /\ Incident(r, k)
                 /\ Crosses(r, "macro_community") \/ Crosses(r, "micro_community")
                 /\ \A q \in 1 .. (r - 1) :
                        ~(Incident(q, k) /\ (Crosses(q, "macro_community")
                                              \/ Crosses(q, "micro_community")))
    IN  2 * i + (IF SrcKey(i) = k THEN 0 ELSE 1)

\* C6: for each listed node, macro_score is the number of projection rows, counted
\* with multiplicity, incident to it whose endpoints both have an entry and differ
\* in macro community, and micro_score likewise with micro ids; a crossing row
\* credits both of its endpoints.
C6_BridgeScores ==
    pc = "done" =>
        /\ \A j \in 1 .. Len(bridges) :
            /\ bridges[j].macro_score = CrossCount(bridges[j].node_id, "macro_community")
            /\ bridges[j].micro_score = CrossCount(bridges[j].node_id, "micro_community")
        /\ \A i \in 1 .. Len(df) :
              (Crosses(i, "macro_community") \/ Crosses(i, "micro_community"))
                  => Listed(SrcKey(i)) /\ Listed(TgtKey(i))

\* The same pair given as a structural and as a semantic row counts twice.
C6_Witness ==
    /\ pc = "done"
    /\ \E i, j \in 1 .. Len(df) :
          /\ i # j
          /\ df[i].source = df[j].source /\ df[i].target = df[j].target
          /\ df[i].type = "structural" /\ df[j].type = "semantic"
          /\ Crosses(i, "macro_community")
          /\ \E b \in 1 .. Len(bridges) :
                bridges[b].node_id = TgtKey(i) /\ bridges[b].macro_score = 2

\* C7: a row with an endpoint missing from the assignment raises nothing and
\* changes no score: the stage returns, and returns what it returns for the
\* projection without that row.
C7_MissingEndpointSkipped ==
    pc = "done" =>
        /\ error = NoError
        /\ \A i \in 1 .. Len(df) :
              MissingEndpoint(i) =>
                  LET r == identify_bridges(RemoveAt(df, i), community_map)
                  IN  r.error = NoError /\ r.bridges = bridges

\* A row with exactly one endpoint missing whose other endpoint is a bridge
\* through another row.
C7_Witness ==
    /\ pc = "done"
    /\ \E i \in 1 .. Len(df) :
          /\ ~HasEntry(TgtKey(i))
          /\ HasEntry(SrcKey(i))
          /\ Listed(SrcKey(i))

\* C8: a node is listed if and only if at least one row incident to it crosses
\* a macro or micro boundary; every entry has macro_score + micro_score >= 1 and
\* no node id is listed twice.
C8_BridgesSparse ==
    pc = "done" =>
        /\ \A k \in NodeKeys :
              Listed(k) <=> (CrossCount(k, "macro_community")
                                + CrossCount(k, "micro_community") >= 1)
        /\ \A j \in 1 .. Len(bridges) :
              /\ bridges[j].node_id \in NodeKeys
              /\ bridges[j].macro_score + bridges[j].micro_score >= 1
        /\ \A i, j \in 1 .. Len(bridges) :
              bridges[i].node_id = bridges[j].node_id => i = j

\* An assigned node whose only row stays inside its communities is not listed
\* while the nodes of a crossing row are.
C8_Witness ==
    /\ pc = "done"
    /\ bridges # <<>>
    /\ \E i \in 1 .. Len(df) :
          /\ BothAssigned(i)
          /\ SrcKey(i) # TgtKey(i)
          /\ ~Listed(SrcKey(i))

\* C9: the list is in descending lexicographic order of (macro_score,
\* micro_score), and entries with an equal pair are in the order in which they
\* first received a score during the scan of the rows.
C9_BridgeOrder ==
    pc = "done" =>
        \A a, b \in 1 .. Len(bridges) :
            a < b =>
                \/ bridges[a].macro_score > bridges[b].macro_score
                \/ /\ bridges[a].macro_score = bridges[b].macro_score
                   /\ bridges[a].micro_score > bridges[b].micro_score
                \/ /\ bridges[a].macro_score = bridges[b].macro_score
                   /\ bridges[a].micro_score = bridges[b].micro_score
                   /\ FirstSeen(bridges[a].node_id) < FirstSeen(bridges[b].node_id)

\* Three bridges: the sort moved one ahead of an earlier-seen one, and two with
\* an equal score pair follow in first-seen order.
C9_Witness ==
    /\ pc = "done"
    /\ Len(bridges) = 3
    /\ \E a, b \in 1 .. 3 :
          /\ a < b
          /\ FirstSeen(bridges[a].node_id) > FirstSeen(bridges[b].node_id)
    /\ \E a, b \in 1 .. 3 :
          /\ a < b
          /\ bridges[a].macro_score = bridges[b].macro_score
          /\ bridges[a].micro_score = bridges[b].micro_score

\* ------------------------------------------------------------ fingerprints
\* The same items in every enumeration order.
Reorderings(cmap) ==
    {[i \in 1 .. Len(cmap) |-> cmap[p[i]]] : p \in Permutations(1 .. Len(cmap))}

\* The first call reads the map in ascending key order; the second call reads it
\* as is, or in any other order of the same items.
InitFingerprint ==
    /\ pc = "start"
    /\ AnalysesIdle /\ LeidenIdle
    /\ ProjectorIdle
    /\ HierIdle
    /\ HubIdle
    /\ IsCommunityMap(community_map, SortedKeySeqs)
    /\ reordered_map = community_map
    /\ fingerprints = InitialFingerprints
    /\ test_fps_v2 = InitialFingerprints
    /\ error = NoError
    /\ df = <<>> /\ bridges = <<>>
    /\ current_map = <<>> /\ baseline_map = <<>>
    /\ drift_results = InitialDriftResults

\* test_fps = printer.generate_fingerprints(map)
GenerateFingerprints ==
    /\ pc = "start"
    /\ pc' = "first"
    /\ fingerprints' = generate_fingerprints(community_map)
    /\ UNCHANGED <<community_map, reordered_map, test_fps_v2, df, bridges, error, driftVars, hubVars, analysisVars,
                   leidenVars, hierVars,
                   projectorVars>>

\* Between the calls the map is written again with the same items in another order.
ReorderMap ==
    /\ pc = "first"
    /\ pc' = "reordered"
    /\ \E m \in Reorderings(community_map) :
          /\ m # community_map
          /\ reordered_map' = m
    /\ UNCHANGED <<community_map, fingerprints, test_fps_v2, df, bridges, error, driftVars, hubVars, analysisVars,
                   leidenVars, hierVars,
                   projectorVars>>

\* test_fps_v2 = printer.generate_fingerprints(map)
GenerateFingerprintsAgain ==
    /\ pc \in {"first", "reordered", "reclustered"}
    /\ pc' = "done"
    /\ test_fps_v2' = generate_fingerprints(reordered_map)
    /\ UNCHANGED <<community_map, reordered_map, fingerprints, df, bridges, error, driftVars, hubVars, analysisVars,
                   leidenVars, hierVars,
                   projectorVars>>

NextFingerprint == GenerateFingerprints \/ ReorderMap \/ GenerateFingerprintsAgain

SpecFingerprint == InitFingerprint /\ [][NextFingerprint]_vars

\* ---------------------------------------------------- fingerprints: claims
\* d1 == d2 on dicts: the same keys with the same values, in any order.
DictEqual(d1, d2) ==
    /\ DictKeys(d1) = DictKeys(d2)
    /\ \A k \in DictKeys(d1) : DictGet(d1, k) = DictGet(d2, k)

\* C10: two calls of generate_fingerprints on the same assignment return equal
\* maps, also when the second call enumerates the nodes in another order: every
\* community keeps its fingerprint, at both levels.
C10_FingerprintOrderInsensitive ==
    pc = "done" =>
        /\ DictEqual(fingerprints.macro_communities, test_fps_v2.macro_communities)
        /\ DictEqual(fingerprints.micro_communities, test_fps_v2.micro_communities)
        /\ reordered_map = community_map => test_fps_v2 = fingerprints

\* Two members of one macro community that the first call met in ascending
\* string order and the second call in the opposite order.
C10_Witness ==
    /\ pc = "done"
    /\ \E i, j \in 1 .. Len(community_map) :
          /\ i < j
          /\ community_map[i].val["macro_community"] = community_map[j].val["macro_community"]
          /\ StrLess(community_map[i].key, community_map[j].key)
          /\ \E a, b \in 1 .. Len(reordered_map) :
                /\ a < b
                /\ reordered_map[a] = community_map[j]
                /\ reordered_map[b] = community_map[i]

\* ----------------------------------------------- fingerprints of two runs
\* A later pipeline run clustered again and wrote another community map, which
\* the second call reads: any assignment, related to the first or not.
Recluster ==
    /\ pc = "first"
    /\ pc' = "reclustered"
    /\ IsCommunityMap(reordered_map', SortedKeySeqs)
    /\ UNCHANGED <<community_map, fingerprints, test_fps_v2, df, bridges, error, driftVars, hubVars, analysisVars,
                   leidenVars, hierVars,
                   projectorVars>>

NextFingerprintRuns == GenerateFingerprints \/ Recluster \/ GenerateFingerprintsAgain

SpecFingerprintRuns == InitFingerprint /\ [][NextFingerprintRuns]_vars

Levels == {"macro_community", "micro_community"}

\* The nodes the assignment puts in community c at the level.
Members(cmap, level, c) ==
    {cmap[i].key : i \in {j \in 1 .. Len(cmap) : cmap[j].val[level] = c}}

\* The fingerprints of one level in the returned dict.
LevelFingerprints(fps, level) ==
    IF level = "macro_community" THEN fps.macro_communities ELSE fps.micro_communities

\* C11: for a community id present at the same level in both assignments, the
\* hashed content (the sorted member ids joined by commas), and with it the
\* fingerprint, is the same in both runs exactly when the community has the
\* same member set in both, whatever happened to the other communities.
C11_FingerprintDetectsChange ==
    pc = "done" =>
        \A level \in Levels : \A c \in CommunityIds :
            (Members(community_map, level, c) # {} /\ Members(reordered_map, level, c) # {}) =>
                /\ DictHas(LevelFingerprints(fingerprints, level), Str(c))
                /\ DictHas(LevelFingerprints(test_fps_v2, level), Str(c))
                /\ LET fp1 == DictGet(LevelFingerprints(fingerprints, level), Str(c))
                       fp2 == DictGet(LevelFingerprints(test_fps_v2, level), Str(c))
                       same == Members(community_map, level, c) = Members(reordered_map, level, c)
                   IN  /\ (fp1.sha256 = fp2.sha256) <=> same
                       /\ (fp1 = fp2) <=> same

\* At one level, one community kept its members while another community,
\* present in both runs, lost one of its two members.
C11_Witness ==
    /\ pc = "done"
    /\ \E level \in Levels : \E c, c2 \in CommunityIds :
          /\ Members(community_map, level, c) # {}
          /\ Members(community_map, level, c) = Members(reordered_map, level, c)
          /\ Cardinality(Members(community_map, level, c2)) = 2
          /\ Cardinality(Members(reordered_map, level, c2)) = 1
          /\ Members(reordered_map, level, c2) \subseteq Members(community_map, level, c2)

\* ------------------------------------------------------------ hub extraction
\* The projection and the community map are loaded.  The map is iterated, so
\* every key order is drawn.
InitHubs ==
    /\ pc = "start"
    /\ AnalysesIdle /\ LeidenIdle
    /\ ProjectorIdle
    /\ HierIdle
    /\ edges_df \in HubProjections
    /\ IsCommunityMap(community_map, KeySeqs)
    /\ top_k \in TopKs
    /\ pagerank = <<>>
    /\ community_hubs = <<>>
    /\ OtherHubIdle
    /\ error = NoError
    /\ df = <<>> /\ bridges = <<>>
    /\ current_map = <<>> /\ baseline_map = <<>>
    /\ drift_results = InitialDriftResults
    /\ fingerprints = InitialFingerprints /\ test_fps_v2 = InitialFingerprints
    /\ reordered_map = <<>>

\* The vertices of the sub-graphs that pagerank is called on: the endpoints of
\* the internal edges of the communities with two members or more.  A node is
\* in one micro community, hence in one sub-graph at most.
PageRankVertices(rows, cmap) ==
    LET groups == comm_to_nodes(cmap)
    IN  {n \in NodeIds :
            \E g \in 1 .. Len(groups) :
                /\ Len(groups[g].val) >= 2
                /\ InList(n, VertexNames(<<>>, InternalEdges(rows, groups[g].val), 1))}

\* hubs = filter.extract_hubs(projection, community_map); the scores are those
\* the PageRank library returns, whatever they are.
ExtractHubs ==
    /\ pc = "start"
    /\ pc' = "done"
    /\ \E scores \in [PageRankVertices(edges_df, community_map) -> PageRankScores] :
          /\ pagerank' = scores
          /\ community_hubs' = extract_hubs(edges_df, community_map, top_k, scores)
    /\ UNCHANGED <<edges_df, top_k, community_map, df, bridges, error, driftVars,
                   fingerprintVars, hierVars, projectorVars, otherHubVars,
                   analysisVars, leidenVars>>

NextHubs == ExtractHubs

SpecHubs == InitHubs /\ [][NextHubs]_vars

\* ---------------------------------------------------- hub extraction: claims
MicroMembers(c) == Members(community_map, "micro_community", c)

\* Row i of the projection joins two members of micro community c.
InternalRow(i, c) ==
    /\ Str(edges_df[i].source) \in MicroMembers(c)
    /\ Str(edges_df[i].target) \in MicroMembers(c)

HasInternalEdge(c) == \E i \in 1 .. Len(edges_df) : InternalRow(i, c)

\* C12: a micro community with exactly one member gets exactly one entry, that
\* member with rank 1 and score 1.0, for every top_k (0 included) and whatever
\* edges the projection holds.
C12_SingleMemberHub ==
    pc = "done" =>
        \A c \in CommunityIds : \A n \in NodeKeys :
            MicroMembers(c) = {n} =>
                /\ DictHas(community_hubs, Str(c))
                /\ DictGet(community_hubs, Str(c)) =
                      <<[node_id |-> n, rank |-> 1, score |-> [num |-> 1, den |-> 1]]>>

\* top_k is 0 and the only member of a community has an edge to itself and an
\* edge to another node.
C12_Witness ==
    /\ pc = "done"
    /\ top_k = 0
    /\ \E c \in CommunityIds : \E n \in NodeKeys :
          /\ MicroMembers(c) = {n}
          /\ \E i, j \in 1 .. Len(edges_df) :
                /\ Str(edges_df[i].source) = n /\ Str(edges_df[i].target) = n
                /\ Str(edges_df[j].source) = n /\ Str(edges_df[j].target) # n
          /\ Len(DictGet(community_hubs, Str(c))) = 1

\* C13: for a micro community with two members or more and an internal edge the
\* list has at most top_k entries, its scores never increase along the list,
\* the rank of the i-th entry is i, and no node id occurs twice.
C13_RankedHubs ==
    pc = "done" =>
        \A c \in CommunityIds :
            (Cardinality(MicroMembers(c)) >= 2 /\ HasInternalEdge(c)) =>
                /\ DictHas(community_hubs, Str(c))
                /\ LET hubs == DictGet(community_hubs, Str(c))
                   IN  /\ Len(hubs) <= top_k
                       /\ \A i \in 1 .. Len(hubs) : hubs[i].rank = i
                       /\ \A i, j \in 1 .. Len(hubs) :
                             i < j =>
                                /\ hubs[j].score.num * hubs[i].score.den
                                      <= hubs[i].score.num * hubs[j].score.den
                                /\ hubs[i].node_id # hubs[j].node_id

\* Three vertices were scored and top_k = 2 cut the list: the two kept entries
\* have different scores and the first of them is not the first vertex of the
\* sub-graph, so the sort moved it.
C13_Witness ==
    /\ pc = "done"
    /\ top_k = 2
    /\ \E c \in CommunityIds :
          /\ Cardinality(MicroMembers(c)) = 3
          /\ HasInternalEdge(c)
          /\ Cardinality(DOMAIN pagerank) = 3
          /\ LET hubs == DictGet(community_hubs, Str(c))
             IN  /\ Len(hubs) = 2
                 /\ hubs[1].score # hubs[2].score
                 /\ hubs[1].node_id # Str(edges_df[1].source)

\* C14: the output has one key per micro community id that occurs in the
\* assignment and no other key, and every node listed under a key is a member
\* of that micro community.
C14_GroupedByMicro ==
    pc = "done" =>
        /\ DictKeys(community_hubs) = {Str(c) : c \in {d \in CommunityIds : MicroMembers(d) # {}}}
        /\ \A i, j \in 1 .. Len(community_hubs) :
              community_hubs[i].key = community_hubs[j].key => i = j
        /\ \A c \in CommunityIds :
              DictHas(community_hubs, Str(c)) =>
                 \A i \in 1 .. Len(DictGet(community_hubs, Str(c))) :
                    DictGet(community_hubs, Str(c))[i].node_id \in MicroMembers(c)

\* Two micro communities inside one macro community, one with a single member
\* and one whose two members were ranked by score.
C14_Witness ==
    /\ pc = "done"
    /\ Len(community_hubs) = 2
    /\ \A i \in 1 .. Len(community_map) : community_map[i].val["macro_community"] = 0
    /\ \E c, d \in CommunityIds :
          /\ Cardinality(MicroMembers(c)) = 1
          /\ Len(DictGet(community_hubs, Str(d))) = 2
          /\ DictGet(community_hubs, Str(d))[2].rank = 2

\* The members of micro community c in the order of the assignment's items.
MemberList(c) ==
    LET items == SelectSeq(community_map, LAMBDA item : item.val["micro_community"] = c)
    IN  [i \in 1 .. Len(items) |-> items[i].key]

\* C24: for a micro community with two members or more and no edge of the
\* projection inside it, the list is the first min(top_k, member count)
\* members in assignment order, each with rank 1 and score 1.0.
C24_IsolatedMembers ==
    pc = "done" =>
        \A c \in CommunityIds :
            (Cardinality(MicroMembers(c)) >= 2 /\ ~HasInternalEdge(c)) =>
                /\ DictHas(community_hubs, Str(c))
                /\ LET hubs == DictGet(community_hubs, Str(c))
                       count == IF top_k < Len(MemberList(c)) THEN top_k ELSE Len(MemberList(c))
                   IN  /\ Len(hubs) = count
                       /\ \A i \in 1 .. count :
                             hubs[i] = [node_id |-> MemberList(c)[i], rank |-> 1,
                                        score |-> [num |-> 1, den |-> 1]]

\* top_k = 1 and a community of two members, met in descending key order, with
\* an edge that leaves the community and none inside it.
C24_Witness ==
    /\ pc = "done"
    /\ top_k = 1
    /\ \E c \in CommunityIds :
          /\ Len(MemberList(c)) = 2
          /\ StrLess(MemberList(c)[2], MemberList(c)[1])
          /\ ~HasInternalEdge(c)
          /\ \E i \in 1 .. Len(edges_df) :
                /\ Str(edges_df[i].source) \in MicroMembers(c)
                /\ Str(edges_df[i].target) \notin MicroMembers(c)
          /\ Len(DictGet(community_hubs, Str(c))) = 1

\* C26: for a micro community with two members or more and at least one
\* internal edge, when top_k is at least the member count, the ranking holds
\* every member exactly once, members without an internal edge included.
C26_EveryMemberRanked ==
    pc = "done" =>
        \A c \in CommunityIds :
            ( /\ Cardinality(MicroMembers(c)) >= 2
              /\ HasInternalEdge(c)
              /\ top_k >= Cardinality(MicroMembers(c)) ) =>
                /\ DictHas(community_hubs, Str(c))
                /\ \A n \in MicroMembers(c) :
                      LET hubs == DictGet(community_hubs, Str(c))
                      IN  Cardinality({i \in 1 .. Len(hubs) : hubs[i].node_id = n}) = 1

\* ------------------------------------------- hub extraction, two projections
\* The projections that differ from rows in one row at most: a row removed,
\* a row inserted or a row replaced.
OneRowEdits(rows) ==
    {other \in HubProjections :
        \/ other = rows
        \/ \E i \in 1 .. Len(rows) : other = RemoveAt(rows, i)
        \/ \E i \in 1 .. Len(other) : rows = RemoveAt(other, i)
        \/ /\ Len(other) = Len(rows)
           /\ \E i \in 1 .. Len(rows) : RemoveAt(other, i) = RemoveAt(rows, i)}

\* extract_hubs is applied to two projections under one community map and one
\* top_k >= 1.  The second projection is the first with one row edited; the
\* map is read in ascending key order with one macro community.
InitHubPair ==
    /\ pc = "start"
    /\ AnalysesIdle /\ LeidenIdle
    /\ ProjectorIdle
    /\ HierIdle
    /\ edges_df \in HubProjections
    /\ other_edges_df \in OneRowEdits(edges_df)
    /\ IsCommunityMap(community_map, SortedKeySeqs)
    /\ \A i \in 1 .. Len(community_map) : community_map[i].val["macro_community"] = 0
    /\ top_k \in TopKs \ {0}
    /\ pagerank = <<>> /\ community_hubs = <<>>
    /\ other_pagerank = <<>> /\ other_hubs = <<>>
    /\ error = NoError
    /\ df = <<>> /\ bridges = <<>>
    /\ current_map = <<>> /\ baseline_map = <<>>
    /\ drift_results = InitialDriftResults
    /\ fingerprints = InitialFingerprints /\ test_fps_v2 = InitialFingerprints
    /\ reordered_map = <<>>

\* g.pagerank is a function of the graph: a community whose tuple list is the
\* same in both projections gives the same graph, hence the same scores.
SameGraphSameScores(scores) ==
    LET groups == comm_to_nodes(community_map)
    IN  \A g \in 1 .. Len(groups) :
            LET tuples == InternalEdges(edges_df, groups[g].val)
                other_tuples == InternalEdges(other_edges_df, groups[g].val)
            IN  (Len(groups[g].val) >= 2 /\ tuples = other_tuples) =>
                    \A n \in NodeIds :
                        InList(n, VertexNames(<<>>, other_tuples, 1)) => scores[n] = pagerank[n]

\* filter.extract_hubs(other projection, community_map), after the first call.
ExtractHubsOther ==
    /\ pc = "done"
    /\ pc' = "other_done"
    /\ \E scores \in [PageRankVertices(other_edges_df, community_map) -> PageRankScores] :
          /\ SameGraphSameScores(scores)
          /\ other_pagerank' = scores
          /\ other_hubs' = extract_hubs(other_edges_df, community_map, top_k, scores)
    /\ UNCHANGED <<edges_df, top_k, pagerank, community_hubs, other_edges_df, community_map,
                   df, bridges, error, driftVars, fingerprintVars, hierVars, projectorVars,
                   analysisVars, leidenVars>>

NextHubPair == ExtractHubs \/ ExtractHubsOther

SpecHubPair == InitHubPair /\ [][NextHubPair]_vars

\* ----------------------------------- hub extraction, two projections: claims
\* The rows of a projection that join two members of micro community c.
RowsInside(rows, c) ==
    SelectSeq(rows, LAMBDA row : Str(row.source) \in MicroMembers(c) /\ Str(row.target) \in MicroMembers(c))

\* The entry of community c in a result of extract_hubs, <<>> when it has none.
Ranking(hubs, c) == IF DictHas(hubs, Str(c)) THEN <<DictGet(hubs, Str(c))>> ELSE <<>>

\* C25: two projections whose rows inside a micro community are the same,
\* whatever their other rows are, give that community the same ranking.
C25_RankingIsLocal ==
    pc = "other_done" =>
        \A c \in CommunityIds :
            RowsInside(edges_df, c) = RowsInside(other_edges_df, c) =>
                Ranking(community_hubs, c) = Ranking(other_hubs, c)

\* A community of two members with a row inside it, ranked with both members;
\* each projection has a further row, the two further rows differ and each has
\* an endpoint outside the community.
C25_Witness ==
    /\ pc = "other_done"
    /\ \E c \in CommunityIds :
          /\ Cardinality(MicroMembers(c)) = 2
          /\ Len(RowsInside(edges_df, c)) = 1
          /\ RowsInside(edges_df, c) = RowsInside(other_edges_df, c)
          /\ Len(edges_df) = 2 /\ Len(other_edges_df) = 2
          /\ edges_df # other_edges_df
          /\ Len(DictGet(community_hubs, Str(c))) = 2
          /\ DictGet(community_hubs, Str(c)) = DictGet(other_hubs, Str(c))

\* ------------------------------------------- the three analyses, one instance
\* The map an earlier call built is taken up again.
NewBridgeDataMutKept(left_over) == left_over

\* bridge_data = {} at the start of identify_bridges, whatever an earlier call built.
NewBridgeData(left_over) == <<>>

\* macro_groups = defaultdict(list); micro_groups = defaultdict(list)
NewGroups(left_over) == <<>>

\* comm_to_nodes = defaultdict(list)
NewCommToNodes(left_over) == <<>>

\* One call of identify_bridges, with the map it built.
BridgeCall(left_over, rows, cmap) ==
    LET acc == BridgeLoop([data |-> NewBridgeData(left_over), error |-> NoError], rows, cmap, 1)
        bridges_list == [i \in 1 .. Len(acc.data) |-> BridgeEntry(acc.data[i])]
    IN  [bridges |-> IF acc.error # NoError THEN <<>> ELSE SortBridges(bridges_list),
         error |-> acc.error,
         bridge_data |-> acc.data]

\* One call of generate_fingerprints, with the maps it built.
FingerprintCall(left_over_macro, left_over_micro, cmap) ==
    LET macro_groups == GroupLoop(NewGroups(left_over_macro), cmap, "macro_community", 1)
        micro_groups == GroupLoop(NewGroups(left_over_micro), cmap, "micro_community", 1)
    IN  [fingerprints |-> [macro_communities |-> HashLoop(<<>>, macro_groups, 1),
                           micro_communities |-> HashLoop(<<>>, micro_groups, 1)],
         macro_groups |-> macro_groups,
         micro_groups |-> micro_groups]

\* One call of extract_hubs, with the map it built.
HubCall(left_over, rows, cmap, k, scores) ==
    LET groups == GroupLoop(NewCommToNodes(left_over), cmap, HubGroupLevel, 1)
    IN  [community_hubs |-> HubLoop(<<>>, groups, 1, rows, k, scores),
         comm_to_nodes |-> groups]

\* The projection and the assignment are on disk and one instance of each of
\* the three classes exists.  df and edges_df are the same file as the two
\* readers see it, without self-loops; the map is read in ascending key order.
InitAnalyses ==
    /\ pc = "start"
    /\ AnalysesIdle /\ LeidenIdle
    /\ ProjectorIdle
    /\ HierIdle
    /\ OtherHubIdle
    /\ edges_df \in HubProjections
    /\ \A i \in 1 .. Len(edges_df) : edges_df[i].source # edges_df[i].target
    /\ df = [i \in 1 .. Len(edges_df) |->
                [source |-> edges_df[i].source, target |-> edges_df[i].target, type |-> "structural"]]
    /\ IsCommunityMap(community_map, SortedKeySeqs)
    /\ top_k = MaxTopK
    /\ pagerank = <<>> /\ community_hubs = <<>>
    /\ bridges = <<>> /\ error = NoError
    /\ current_map = <<>> /\ baseline_map = <<>>
    /\ drift_results = InitialDriftResults
    /\ fingerprints = InitialFingerprints /\ test_fps_v2 = InitialFingerprints
    /\ reordered_map = <<>>

\* identifier.identify_bridges(projection, community_map)
RunBridge ==
    /\ runs.bridge < MaxRuns
    /\ runs' = [runs EXCEPT !.bridge = @ + 1]
    /\ pc' = "done"
    /\ LET r == BridgeCall(call_maps.bridge_data, df, community_map)
       IN  /\ bridges' = r.bridges
           /\ error' = r.error
           /\ call_maps' = [call_maps EXCEPT !.bridge_data = r.bridge_data]
    /\ UNCHANGED <<df, community_map, driftVars, fingerprintVars, hubVars, hierVars,
                   projectorVars, leidenVars>>

\* fingerprinter.generate_fingerprints(community_map)
RunFingerprint ==
    /\ runs.fingerprint < MaxRuns
    /\ runs' = [runs EXCEPT !.fingerprint = @ + 1]
    /\ pc' = "done"
    /\ LET r == FingerprintCall(call_maps.macro_groups, call_maps.micro_groups, community_map)
       IN  /\ fingerprints' = r.fingerprints
           /\ call_maps' = [call_maps EXCEPT !.macro_groups = r.macro_groups,
                                             !.micro_groups = r.micro_groups]
    /\ UNCHANGED <<reordered_map, test_fps_v2, bridgeVars, error, driftVars, hubVars, hierVars,
                   projectorVars, leidenVars>>

\* filter.extract_hubs(projection, community_map); g.pagerank returns on the
\* same graphs what it returned in the call before.
RunHub ==
    /\ runs.hub < MaxRuns
    /\ runs' = [runs EXCEPT !.hub = @ + 1]
    /\ pc' = "done"
    /\ \E scores \in [PageRankVertices(edges_df, community_map) -> PageRankScores] :
          /\ runs.hub > 0 => scores = pagerank
          /\ pagerank' = scores
          /\ LET r == HubCall(call_maps.comm_to_nodes, edges_df, community_map, top_k, scores)
             IN  /\ community_hubs' = r.community_hubs
                 /\ call_maps' = [call_maps EXCEPT !.comm_to_nodes = r.comm_to_nodes]
    /\ UNCHANGED <<edges_df, top_k, otherHubVars, bridgeVars, error, driftVars, fingerprintVars,
                   hierVars, projectorVars, leidenVars>>

NextAnalyses == RunBridge \/ RunFingerprint \/ RunHub

SpecAnalyses == InitAnalyses /\ [][NextAnalyses]_vars

\* ----------------------------------- the three analyses, one instance: claims
\* Each output is absent before the first call of its analysis and afterwards
\* is what one call on the inputs alone returns.
OutputsAsInIsolation ==
    /\ bridges = IF runs.bridge = 0 THEN <<>> ELSE identify_bridges(df, community_map).bridges
    /\ error = IF runs.bridge = 0 THEN NoError ELSE identify_bridges(df, community_map).error
    /\ fingerprints = IF runs.fingerprint = 0 THEN InitialFingerprints
                      ELSE generate_fingerprints(community_map)
    /\ community_hubs = IF runs.hub = 0 THEN <<>>
                        ELSE extract_hubs(edges_df, community_map, top_k, pagerank)

\* No call writes the projection or the assignment.
InputsUnchanged == df' = df /\ edges_df' = edges_df /\ community_map' = community_map

InitHierarchy ==
    /\ pc = "start"
    /\ AnalysesIdle /\ LeidenIdle
    /\ ProjectorIdle
    /\ resolutions_arg \in ResolutionLists
    /\ resolutions = SortResolutions(resolutions_arg)
    /\ edges_df \in HubProjections
    /\ partition_calls = <<>>
    /\ hierarchical_map = <<>> /\ tree = <<>> /\ compat_map = <<>>
    /\ top_k = 0 /\ pagerank = <<>> /\ community_hubs = <<>>
    /\ OtherHubIdle
    /\ error = NoError
    /\ df = <<>> /\ community_map = <<>> /\ bridges = <<>>
    /\ current_map = <<>> /\ baseline_map = <<>>
    /\ drift_results = InitialDriftResults
    /\ fingerprints = InitialFingerprints /\ test_fps_v2 = InitialFingerprints
    /\ reordered_map = <<>>

\* The vertices of the graph built from the rows.
GraphVertices == VertexNames(<<>>, edges_df, 1)

\* hmap, tree = engine.cluster(proj_file) on a projection with edges: each
\* find_partition call returns some membership over the vertices.
Cluster ==
    /\ pc = "start"
    /\ edges_df # <<>>
    /\ pc' = "clustered"
    /\ \E partitions \in [1 .. Len(resolutions) -> [1 .. Len(GraphVertices) -> CommunityIds]] :
          /\ partition_calls' =
                [i \in 1 .. Len(resolutions) |->
                    [resolution |-> resolutions[i], membership |-> partitions[i]]]
          /\ LET result == cluster(edges_df, resolutions, partitions)
             IN  hierarchical_map' = result.hierarchical_map /\ tree' = result.tree
    /\ UNCHANGED <<resolutions_arg, resolutions, compat_map, error, driftVars, bridgeVars,
                   fingerprintVars, hubVars, analysisVars, leidenVars, projectorVars>>

\* The same call on a projection without rows: the graph has no vertex and no
\* edge, and nothing in cluster looks at that.  With no resolution no call is
\* made; otherwise find_partition is called on the empty graph, and the library
\* either returns an empty membership for every level or raises in the first call.
ClusterEmpty ==
    /\ pc = "start"
    /\ edges_df = <<>>
    /\ \/ /\ pc' = "clustered"
          /\ partition_calls' =
                [i \in 1 .. Len(resolutions) |->
                    [resolution |-> resolutions[i], membership |-> <<>>]]
          /\ LET result == cluster(edges_df, resolutions, [i \in 1 .. Len(resolutions) |-> <<>>])
             IN  hierarchical_map' = result.hierarchical_map /\ tree' = result.tree
          /\ error' = error
       \/ /\ resolutions # <<>>
          /\ pc' = "failed"
          /\ partition_calls' = <<[resolution |-> resolutions[1], membership |-> <<>>]>>
          /\ error' = "LibraryError"
          /\ UNCHANGED <<hierarchical_map, tree, projectorVars>>
    /\ UNCHANGED <<resolutions_arg, resolutions, compat_map, driftVars, bridgeVars,
                   fingerprintVars, hubVars, analysisVars, leidenVars, projectorVars>>

\* engine.save_results(hmap, tree, dir): the compatibility view.
SaveResults ==
    /\ pc = "clustered"
    /\ LET view == compat_view(hierarchical_map)
       IN  /\ compat_map' = view.compat_map
           /\ error' = view.error
           /\ pc' = IF view.error = NoError THEN "done" ELSE "failed"
    /\ UNCHANGED <<resolutions_arg, resolutions, partition_calls, hierarchical_map, tree,
                   driftVars, bridgeVars, fingerprintVars, hubVars, analysisVars, leidenVars, projectorVars>>

NextHierarchy == Cluster \/ ClusterEmpty \/ SaveResults

SpecHierarchy == InitHierarchy /\ [][NextHierarchy]_vars

\* ------------------------------------------ hierarchical clustering: claims
\* The node keys of the endpoints of the projection's rows.
EndpointKeys ==
    {Str(edges_df[i].source) : i \in 1 .. Len(edges_df)}
        \cup {Str(edges_df[i].target) : i \in 1 .. Len(edges_df)}

\* How many times v occurs in the list l.
Occurrences(l, v) == Cardinality({i \in 1 .. Len(l) : l[i] = v})

\* C15: with N >= 1 resolutions, after cluster every node of the graph has a
\* path of length N, and the compatibility view that save_results writes has,
\* for every node, macro_community = path[0] and micro_community = path[-1]
\* (the same value when N = 1); save_results does not fail.
C15_PathAlignment ==
    Len(resolutions_arg) >= 1 =>
        /\ pc \in {"clustered", "done"} =>
              /\ DictKeys(hierarchical_map) = EndpointKeys
              /\ \A i \in 1 .. Len(hierarchical_map) :
                    Len(hierarchical_map[i].val.path) = Len(resolutions_arg)
        /\ pc = "failed" => edges_df = <<>>
        /\ pc = "done" =>
              /\ DictKeys(compat_map) = EndpointKeys
              /\ Len(compat_map) = Len(hierarchical_map)
              /\ \A k \in DictKeys(compat_map) :
                    LET path == DictGet(hierarchical_map, k).path
                        entry == DictGet(compat_map, k)
                    IN  /\ DOMAIN entry = {"macro_community", "micro_community"}
                        /\ entry["macro_community"] = path[1]
                        /\ entry["micro_community"] = path[Len(resolutions_arg)]
                        /\ Len(resolutions_arg) = 1 =>
                              entry["macro_community"] = entry["micro_community"]

\* Three resolutions, and a node whose community at the last level differs from
\* those at the first and at the second level; the view has been written.
C15_Witness ==
    /\ pc = "done"
    /\ Len(resolutions_arg) = 3
    /\ \E i \in 1 .. Len(hierarchical_map) :
          /\ hierarchical_map[i].val.path[3] # hierarchical_map[i].val.path[1]
          /\ hierarchical_map[i].val.path[3] # hierarchical_map[i].val.path[2]
          /\ compat_map[i].val["micro_community"] # compat_map[i].val["macro_community"]

\* C16: whatever the order of the resolutions passed, the levels of the tree
\* are the passed resolutions in ascending order, the i-th partition call was
\* made at the resolution of level i, and index i of every node's path is the
\* community id that call returned for the node.
C16_AscendingLevels ==
    pc \in {"clustered", "done"} =>
        /\ Len(tree.levels) = Len(resolutions_arg)
        /\ \A v \in ResolutionValues :
              Occurrences([i \in 1 .. Len(tree.levels) |-> tree.levels[i].resolution], v)
                 = Occurrences(resolutions_arg, v)
        /\ \A i, j \in 1 .. Len(tree.levels) :
              i < j => tree.levels[i].resolution <= tree.levels[j].resolution
        /\ Len(partition_calls) = Len(tree.levels)
        /\ \A i \in 1 .. Len(tree.levels) :
              /\ partition_calls[i].resolution = tree.levels[i].resolution
              /\ \A idx \in 1 .. Len(GraphVertices) :
                    DictGet(hierarchical_map, Str(GraphVertices[idx])).path[i]
                       = partition_calls[i].membership[idx]

\* The caller passed 1.0, 0.01, 0.1, and some node is in different communities
\* at the lowest and at the highest resolution.
C16_Witness ==
    /\ pc = "clustered"
    /\ resolutions_arg = <<100, 1, 10>>
    /\ tree.levels[1].resolution = 1
    /\ \E i \in 1 .. Len(hierarchical_map) :
          hierarchical_map[i].val.path[1] # hierarchical_map[i].val.path[3]

\* The places (group, position) at which node key n is listed at level i.
Listings(i, n) ==
    LET communities == tree.levels[i].communities
    IN  {q \in (1 .. Len(communities)) \X (1 .. NumNodes) :
            /\ q[2] <= Len(communities[q[1]].val)
            /\ communities[q[1]].val[q[2]] = n}

\* C23: at every level of the tree, every clustered node is listed in exactly
\* one community group, a node is listed under community c exactly when its
\* path has c at that level, that value is the membership the level's
\* detection call returned for the node, and one call was made per level.
C23_InverseGrouping ==
    pc \in {"clustered", "done"} =>
        /\ Len(partition_calls) = Len(resolutions)
        /\ Len(tree.levels) = Len(resolutions)
        /\ \A i \in 1 .. Len(tree.levels) :
              LET communities == tree.levels[i].communities
              IN  /\ \A g, h \in 1 .. Len(communities) :
                        communities[g].key = communities[h].key => g = h
                  /\ \A g \in 1 .. Len(communities) :
                        \A pos \in 1 .. Len(communities[g].val) :
                           /\ DictHas(hierarchical_map, communities[g].val[pos])
                           /\ DictGet(hierarchical_map, communities[g].val[pos]).path[i]
                                 = communities[g].key
                  /\ \A n \in DictKeys(hierarchical_map) :
                        /\ Cardinality(Listings(i, n)) = 1
                        /\ \A c \in CommunityIds :
                              DictGet(hierarchical_map, n).path[i] = c =>
                                 /\ DictHas(communities, c)
                                 /\ InList(n, DictGet(communities, c))
                  /\ \A idx \in 1 .. Len(GraphVertices) :
                        DictGet(hierarchical_map, Str(GraphVertices[idx])).path[i]
                           = partition_calls[i].membership[idx]

\* Three levels over three nodes; at some level two nodes share a community
\* and the third node is alone in another.
C23_Witness ==
    /\ pc = "clustered"
    /\ Len(tree.levels) = 3
    /\ Len(hierarchical_map) = 3
    /\ \E i \in 1 .. 3 :
          /\ Len(tree.levels[i].communities) = 2
          /\ \E g \in 1 .. 2 : Len(tree.levels[i].communities[g].val) = 2

\* C17: clustering a projection with zero edges fails with EmptyGraphError
\* before any community-detection call is made and returns no map or tree.
C17_EmptyGraphError ==
    (edges_df = <<>> /\ pc # "start") =>
        /\ pc = "failed"
        /\ error = "EmptyGraphError"
        /\ partition_calls = <<>>
        /\ hierarchical_map = <<>>
        /\ tree = <<>>

\* ----------------------------------------------- the two clustering engines
\* The macro community is read from the micro partition and the other way round.
LeidenEntryMutSwapped(membership_macro, membership_micro, idx) ==
    [macro_community |-> membership_micro[idx], micro_community |-> membership_macro[idx]]

\* {"macro_community": partition_macro.membership[idx],
\*  "micro_community": partition_micro.membership[idx]}
LeidenEntry(membership_macro, membership_micro, idx) ==
    [macro_community |-> membership_macro[idx], micro_community |-> membership_micro[idx]]

RECURSIVE LeidenMapLoop(_, _, _, _, _)
\* for idx, node_name in enumerate(g.vs['name']): community_map[str(int(node_name))] = ...
LeidenMapLoop(cmap, names, membership_macro, membership_micro, idx) ==
    IF idx > Len(names) THEN cmap
    ELSE LeidenMapLoop(DictSet(cmap, Str(names[idx]),
                               LeidenEntry(membership_macro, membership_micro, idx)),
                       names, membership_macro, membership_micro, idx + 1)

\* LeidenEngine.cluster for the memberships the two partition calls return.
leiden_cluster(rows, membership_macro, membership_micro) ==
    LeidenMapLoop(<<>>, VertexNames(<<>>, rows, 1), membership_macro, membership_micro, 1)

\* What find_partition does on the graph of rows at one resolution: it returns
\* a membership over the vertices; on the graph without vertices it returns
\* the empty membership or raises.
PartitionResults(rows) ==
    LET n == Len(VertexNames(<<>>, rows, 1))
    IN  {[membership |-> m, error |-> NoError] : m \in [1 .. n -> CommunityIds]}
            \cup (IF n = 0 THEN {[membership |-> <<>>, error |-> "LibraryError"]} ELSE {})

\* A two-level engine with resolutions (res_macro, res_micro) and a
\* hierarchical engine given the same two resolutions in either order are
\* constructed; the projection CSV is on disk; find_partition is a function of
\* the graph and the resolution, and on the graph without vertices it behaves
\* the same at every resolution.
InitEngines ==
    /\ pc = "start"
    /\ AnalysesIdle
    /\ ProjectorIdle
    /\ res_macro \in ResolutionValues
    /\ res_micro \in ResolutionValues
    /\ resolutions_arg \in {<<res_macro, res_micro>>, <<res_micro, res_macro>>}
    /\ resolutions = SortResolutions(resolutions_arg)
    /\ edges_df \in HubProjections
    /\ primitive \in [{res_macro, res_micro} -> PartitionResults(edges_df)]
    /\ \A r1, r2 \in DOMAIN primitive : primitive[r1].error = primitive[r2].error
    /\ two_level_map = <<>>
    /\ partition_calls = <<>>
    /\ hierarchical_map = <<>> /\ tree = <<>> /\ compat_map = <<>>
    /\ top_k = 0 /\ pagerank = <<>> /\ community_hubs = <<>>
    /\ OtherHubIdle
    /\ error = NoError
    /\ df = <<>> /\ community_map = <<>> /\ bridges = <<>>
    /\ current_map = <<>> /\ baseline_map = <<>>
    /\ drift_results = InitialDriftResults
    /\ fingerprints = InitialFingerprints /\ test_fps_v2 = InitialFingerprints
    /\ reordered_map = <<>>

\* community_map = engine.cluster(proj_file) of the two-level engine; the
\* macro partition is computed first.
LeidenCluster ==
    /\ pc = "start"
    /\ pc' = "two_level"
    /\ IF primitive[res_macro].error # NoError
       THEN /\ error' = primitive[res_macro].error
            /\ UNCHANGED two_level_map
       ELSE /\ two_level_map' = leiden_cluster(edges_df, primitive[res_macro].membership,
                                               primitive[res_micro].membership)
            /\ UNCHANGED error
    /\ UNCHANGED <<primitive, res_macro, res_micro, hierVars, driftVars, bridgeVars,
                   fingerprintVars, hubVars, projectorVars, analysisVars>>

\* hmap, tree = engine.cluster(proj_file) of the hierarchical engine on the
\* same projection, every find_partition call returning what the primitive
\* returns for that resolution.
ClusterSamePrimitive ==
    /\ pc = "two_level"
    /\ IF primitive[resolutions[1]].error # NoError
       THEN /\ pc' = "failed"
            /\ partition_calls' = <<[resolution |-> resolutions[1], membership |-> <<>>]>>
            /\ error' = primitive[resolutions[1]].error
            /\ UNCHANGED <<hierarchical_map, tree>>
       ELSE /\ pc' = "clustered"
            /\ LET partitions == [i \in 1 .. Len(resolutions) |-> primitive[resolutions[i]].membership]
                   result == cluster(edges_df, resolutions, partitions)
               IN  /\ partition_calls' =
                         [i \in 1 .. Len(resolutions) |->
                             [resolution |-> resolutions[i], membership |-> partitions[i]]]
                   /\ hierarchical_map' = result.hierarchical_map
                   /\ tree' = result.tree
            /\ UNCHANGED error
    /\ UNCHANGED <<resolutions_arg, resolutions, compat_map, leidenVars, driftVars, bridgeVars,
                   fingerprintVars, hubVars, projectorVars, analysisVars>>

NextEngines == LeidenCluster \/ ClusterSamePrimitive \/ SaveResults

SpecEngines == InitEngines /\ [][NextEngines]_vars

\* --------------------------------------- the two clustering engines: claims
\* C28: with res_macro <= res_micro and the hierarchical engine given the two
\* resolutions in either order, the compatibility view equals the map of the
\* two-level engine, and the nodes of both are exactly the endpoints of the
\* projection's rows.
C28_TwoLevelEquivalence ==
    (pc = "done" /\ res_macro <= res_micro) =>
        /\ compat_map = two_level_map
        /\ DictKeys(compat_map) = EndpointKeys
        /\ DictKeys(two_level_map) = EndpointKeys
        /\ \A k \in EndpointKeys :
              /\ DictGet(two_level_map, k).macro_community
                    = primitive[res_macro].membership[CHOOSE i \in 1 .. Len(GraphVertices) : Str(GraphVertices[i]) = k]
              /\ DictGet(two_level_map, k).micro_community
                    = primitive[res_micro].membership[CHOOSE i \in 1 .. Len(GraphVertices) : Str(GraphVertices[i]) = k]

\* res_macro < res_micro, the hierarchical engine was given the larger
\* resolution first, a node is in different communities at the two levels,
\* and a node without an edge has no entry.
C28_Witness ==
    /\ pc = "done"
    /\ res_macro < res_micro
    /\ resolutions_arg = <<res_micro, res_macro>>
    /\ Len(two_level_map) = 2
    /\ \E i \in 1 .. Len(two_level_map) :
          two_level_map[i].val.macro_community # two_level_map[i].val.micro_community
    /\ \E k \in NodeKeys : k \notin EndpointKeys /\ ~DictHas(compat_map, k)
    /\ compat_map = two_level_map

\* -------------------------------------------------------- graph projection
\* The embedding lists handed in with n nodes: one vector per node, one vector
\* short, or one vector too many.
EmbeddingLists(n) ==
    UNION {[1 .. m -> Vectors] : m \in {k \in {n - 1, n, n + 1} : k >= 0}}

\* A projector is constructed and its inputs are at hand.
InitProjection ==
    /\ pc = "start"
    /\ AnalysesIdle /\ LeidenIdle
    /\ HierIdle
    /\ HubIdle
    /\ nodes \in KeySeqs
    /\ edges \in LinkLists
    /\ embeddings \in EmbeddingLists(Len(nodes))
    /\ alpha \in Alphas
    /\ beta \in Betas
    /\ threshold \in Thresholds
    /\ projected_edges = <<>>
    /\ error = NoError
    /\ df = <<>> /\ community_map = <<>> /\ bridges = <<>>
    /\ current_map = <<>> /\ baseline_map = <<>>
    /\ drift_results = InitialDriftResults
    /\ fingerprints = InitialFingerprints /\ test_fps_v2 = InitialFingerprints
    /\ reordered_map = <<>>

\* projection = projector.build_projection(nodes, edges, embeddings)
BuildProjection ==
    /\ pc = "start"
    /\ LET result == build_projection(nodes, edges, embeddings, alpha, beta, threshold)
       IN  /\ projected_edges' = result.projected_edges
           /\ error' = result.error
           /\ pc' = IF result.error = NoError THEN "done" ELSE "failed"
    /\ UNCHANGED <<nodes, edges, embeddings, alpha, beta, threshold, driftVars, bridgeVars,
                   fingerprintVars, hubVars, analysisVars, leidenVars, hierVars>>

NextProjection == BuildProjection

SpecProjection == InitProjection /\ [][NextProjection]_vars

\* ------------------------------------------------ graph projection: claims
\* C18: when the number of embedding vectors differs from the number of nodes,
\* fewer or more, build_projection fails with InputShapeError and returns no
\* projection.
C18_InputShapeError ==
    (pc # "start" /\ Len(embeddings) # Len(nodes)) =>
        /\ pc = "failed"
        /\ error = "InputShapeError"
        /\ projected_edges = <<>>

\* C19: every edge of the returned projection has a non-negative weight, for
\* every alpha, beta and threshold and every input.
C19_WeightNonNegative ==
    pc = "done" =>
        \A k \in 1 .. Len(projected_edges) : projected_edges[k].weight.num >= 0

\* The edges of the returned list after the first len(edges) ones.
SemanticPart == SubSeq(projected_edges, Len(edges) + 1, Len(projected_edges))

\* The cosine similarity of the vectors of nodes i and j, 0 with a zero vector.
PairSimilarity(i, j) ==
    LET a == embeddings[i]
        b == embeddings[j]
    IN  IF Dot(a, a) = 0 \/ Dot(b, b) = 0 THEN [num |-> 0, den |-> 1]
        ELSE SRat(Dot(a, b), Norm(a) * Norm(b))

\* The index pairs i < j of the node ordering whose similarity is >= threshold.
PassingPairs ==
    {p \in (1 .. Len(nodes)) \X (1 .. Len(nodes)) :
        /\ p[1] < p[2]
        /\ PairSimilarity(p[1], p[2]).num * threshold.den
              >= threshold.num * PairSimilarity(p[1], p[2]).den}

\* The position of the pair p among the passing pairs in ascending (i, j) order.
PairRank(p) ==
    Cardinality({q \in PassingPairs : q[1] < p[1] \/ (q[1] = p[1] /\ q[2] <= p[2])})

\* C21: the semantic edges are exactly the index pairs i < j whose similarity
\* is >= threshold, in ascending (i, j) order, each from node i to node j with
\* weight similarity * beta and type semantic; so no pair of nodes, in either
\* direction, has two semantic edges and no node is paired with itself.
C21_SemanticEdges ==
    pc = "done" =>
        /\ Len(SemanticPart) = Cardinality(PassingPairs)
        /\ \A p \in PassingPairs :
              SemanticPart[PairRank(p)] =
                 [source |-> nodes[p[1]], target |-> nodes[p[2]],
                  weight |-> SRat(PairSimilarity(p[1], p[2]).num * beta.num,
                                  PairSimilarity(p[1], p[2]).den * beta.den),
                  type |-> "semantic"]
        /\ \A k, m \in 1 .. Len(SemanticPart) :
              /\ SemanticPart[k].source # SemanticPart[k].target
              /\ k # m =>
                    {SemanticPart[k].source, SemanticPart[k].target}
                       # {SemanticPart[m].source, SemanticPart[m].target}

\* Three nodes, not in ascending key order, with threshold 0: the two pairs
\* with the zero vector pass at similarity 0 and the third pair, of negative
\* similarity, fails.
C21_Witness ==
    /\ pc = "done"
    /\ Len(nodes) = 3
    /\ StrLess(nodes[2], nodes[1])
    /\ threshold.num = 0
    /\ Len(SemanticPart) = 2
    /\ \A k \in 1 .. 2 : SemanticPart[k].weight.num = 0
    /\ \E i, j \in 1 .. 3 : i < j /\ PairSimilarity(i, j).num < 0

\* C22: the list starts with one structural edge per input link, in input
\* order, with the link's source and target, weight alpha and type structural,
\* also for a link given twice or equal to a semantic pair; every later edge
\* is semantic.
C22_StructuralEdges ==
    pc = "done" =>
        /\ Len(projected_edges) >= Len(edges)
        /\ \A k \in 1 .. Len(edges) :
              projected_edges[k] =
                 [source |-> edges[k].source, target |-> edges[k].target,
                  weight |-> alpha, type |-> "structural"]
        /\ \A k \in (Len(edges) + 1) .. Len(projected_edges) :
              projected_edges[k].type = "semantic"

\* The same link was given twice, and the two nodes are also joined by a
\* semantic edge.
C22_Witness ==
    /\ pc = "done"
    /\ Len(edges) = 2
    /\ edges[1] = edges[2]
    /\ Len(projected_edges) > 2
    /\ projected_edges[2].type = "structural"
    /\ \E k \in 3 .. Len(projected_edges) :
          /\ projected_edges[k].source = edges[1].source
          /\ projected_edges[k].target = edges[1].target

\* ------------------------------------------- malformed assignment entries
\* Entries of an assignment artifact that lack a required field: only one of
\* the two fields, or none.
MalformedEntries ==
    [macro_community : CommunityIds] \cup [micro_community : CommunityIds] \cup {EmptyDict}

\* The projection is loaded with a community map that has at least one
\* malformed entry.
InitBridgeMalformed ==
    /\ pc = "start"
    /\ AnalysesIdle /\ LeidenIdle
    /\ ProjectorIdle
    /\ HierIdle
    /\ HubIdle
    /\ df \in Projections
    /\ \E ks \in SortedKeySeqs :
          \E vs \in [1 .. Len(ks) -> Entries \cup MalformedEntries] :
             /\ \E i \in 1 .. Len(ks) : vs[i] \in MalformedEntries
             /\ community_map = MakeMap(ks, vs)
    /\ bridges = <<>>
    /\ error = NoError
    /\ current_map = <<>> /\ baseline_map = <<>>
    /\ drift_results = InitialDriftResults
    /\ fingerprints = InitialFingerprints /\ test_fps_v2 = InitialFingerprints
    /\ reordered_map = <<>>

SpecBridgeMalformed == InitBridgeMalformed /\ [][NextBridge]_vars

\* C20: an assignment entry that lacks macro_community or micro_community
\* makes the stage fail with MalformedAssignmentError, and nothing is returned.
C20_MalformedAssignmentError ==
    (pc = "done" /\ \E i \in 1 .. Len(community_map) : community_map[i].val \in MalformedEntries) =>
        /\ error = "MalformedAssignmentError"
        /\ bridges = <<>>

====
